---- MODULE Spec2Model ----
(***************************************************************************)
(* A model of BasicBot (src/basic_bot.py): the validators, the six         *)
(* operation methods and their exception handlers, in simulated (demo)     *)
(* and live mode.  Python strings that the code inspects character by      *)
(* character (symbol, side) are sequences of one-character strings;        *)
(* dictionaries are functions from key strings to values; the text of an   *)
(* exception, str(e), is a sequence of text fragments.  The remote client  *)
(* is the environment: each invocation returns a payload, returns None or  *)
(* raises.  Spec is the instance under any sequence of operation calls;    *)
(* RepeatSpec is the same with the caller keeping each call to compare it  *)
(* with the next; ConstructSpec is the constructor; MainSpec is one run of *)
(* the command line; SymbolSpec, SideSpec and NumberSpec apply the         *)
(* validators to every short string and to every float of a small range.   *)
(***************************************************************************)
EXTENDS Integers, Sequences, FiniteSets, Bags, TLC

VARIABLES
  demo,       \* self.demo: TRUE in simulated mode
  client,     \* self.client: "None" or "Client"
  op,         \* the operation method called last, "idle" before a call
  args,       \* its arguments, by parameter name
  outcome,    \* how the remote client's method ended in that call
  calls,      \* the invocations of the remote client made by that call
  caught,     \* the exception that reached the call's except clause, if any
  ret,        \* how the call ended: the value returned or the exception raised
  prevTransportError, \* the error text of the latest earlier transport failure
  prev,       \* the call before the current one, when the caller kept it
  botCalls,   \* the operation methods main() has called on its bot
  printed,    \* what main() has written to standard output
  \* BasicBotGUI (src/gui_bot.py); demo and client above are then the
  \* fields of the instance self.bot refers to
  demo_mode_var,   \* the Demo Mode checkbox
  bot,             \* self.bot: 0 for None, else the number of the instance
  inputs,          \* the Tk variables of the order form, by name
  place_order_btn, \* the state of the Place Order button
  status_var,      \* the status label
  threads,         \* the worker threads that are alive: a bag of thread states
  after,           \* the callbacks scheduled with root.after, oldest first
  validated,       \* the form and the bot that validate_inputs last accepted
  offMain,         \* the widget accesses made so far by worker threads
  log_text,        \* the number of lines the log area holds
  environ,         \* the credentials in the process environment
  \* the launcher's menu loop (src/launcher.py)
  looping,         \* TRUE while the while-loop runs
  choice,          \* the line last read by input(), "" before any
  stdin,           \* "open", or "ended" once input() has met end of file
  launched,        \* the subprocesses launched, oldest first
  served           \* TRUE once a choice in 1-5 was read or stdin ended

guiVars == <<demo_mode_var, bot, inputs, place_order_btn, status_var, threads,
             after, validated, offMain, log_text, environ>>
launcherVars == <<looping, choice, stdin, launched, served>>
otherVars == <<guiVars, launcherVars>>

vars == <<demo, client, op, args, outcome, calls, caught, ret,
          prevTransportError, prev, botCalls, printed, otherVars>>

\* no window is open
NoGui ==
  /\ demo_mode_var = FALSE
  /\ bot = 0
  /\ inputs = <<>>
  /\ place_order_btn = "normal"
  /\ status_var = "Ready"
  /\ threads = <<>>
  /\ after = <<>>
  /\ validated = <<>>
  /\ offMain = {}
  /\ log_text = 0
  /\ environ = <<>>

\* no launcher runs
NoLauncher ==
  /\ looping = FALSE
  /\ choice = ""
  /\ stdin = "open"
  /\ launched = <<>>
  /\ served = FALSE

(* ------------------------------ bounds -------------------------------- *)

\* longest string given to a validator on its own
MaxLen == 5
\* largest quantity / price given to an operation (the smallest is -1)
MaxNum == 2
\* number of distinct instants datetime.now() can report
MaxTime == 2
\* largest order id asked of get_order_status
MaxOrderId == 1
\* the longest pretty-printed result, in lines
MaxDump == 4
\* the user stops acting once the log holds this many lines
MaxLogged == 4
\* the longest message handed to log_message, in lines
MaxMessage == 100
\* the launcher is followed for this many subprocess launches
MaxLaunches == 3

(* ------------------------------ strings ------------------------------- *)

LowerCase == <<"a","b","c","d","e","f","g","h","i","j","k","l","m",
               "n","o","p","q","r","s","t","u","v","w","x","y","z">>
UpperCase == <<"A","B","C","D","E","F","G","H","I","J","K","L","M",
               "N","O","P","Q","R","S","T","U","V","W","X","Y","Z">>

WhiteSpace == {" ", "\t"}

\* str.upper() on one character
UpperChar(c) ==
  IF \E i \in 1..Len(LowerCase) : LowerCase[i] = c
  THEN UpperCase[CHOOSE i \in 1..Len(LowerCase) : LowerCase[i] = c]
  ELSE c

\* str.upper()
Upper(s) == [i \in 1..Len(s) |-> UpperChar(s[i])]

RECURSIVE LStrip(_)
LStrip(s) ==
  IF Len(s) > 0 /\ s[1] \in WhiteSpace THEN LStrip(Tail(s)) ELSE s

RECURSIVE RStrip(_)
RStrip(s) ==
  IF Len(s) > 0 /\ s[Len(s)] \in WhiteSpace
  THEN RStrip(SubSeq(s, 1, Len(s) - 1))
  ELSE s

\* str.strip()
Strip(s) == RStrip(LStrip(s))

\* str.endswith(suffix)
EndsWith(s, suffix) ==
  /\ Len(s) >= Len(suffix)
  /\ SubSeq(s, Len(s) - Len(suffix) + 1, Len(s)) = suffix

USDT == <<"U","S","D","T">>
BUY  == <<"B","U","Y">>
SELL == <<"S","E","L","L">>

(* ----------------------------- exceptions ----------------------------- *)

\* What an exception object's `response` attribute can be:
\*   Absent   - the object has no such attribute
\*   Falsy    - None, or an object whose truth value is False
\*   WithText - a truthy object with a `text` attribute
\*   NoText   - a truthy object without a `text` attribute
ValueError(msg) == [type |-> "ValueError", message |-> msg, response |-> "Absent"]

AttributeError(msg) ==
  [type |-> "AttributeError", message |-> msg, response |-> "Absent"]

\* StrOf reporting the exception's class instead of its text
StrOfType(e) == <<e.type>>

\* str(e), as a sequence of text fragments
StrOf(e) ==
  CASE e.type = "BinanceAPIException"   -> <<"APIError(code=", e.code, "): ", e.message>>
    [] e.type = "BinanceOrderException" -> <<"BinanceOrderException(code=", e.code, "): ", e.message>>
    [] OTHER                            -> <<e.message>>

\* the completion of a piece of code: it returns a value or raises
Returned(v) == [kind |-> "Returned", value |-> v]
Raised(e)   == [kind |-> "Raised", exc |-> e]

(* ------------------------------- floats ------------------------------- *)

\* A Python float is encoded as an integer: -MaxNum..MaxNum are the finite
\* values, counted in units of the smallest positive float (so 1 is the
\* smallest positive value there is), PosInf and NegInf are the infinities
\* and NaN is float('nan').
PosInf == MaxNum + 1
NegInf == 0 - PosInf
NaN == MaxNum + 2
Floats == NegInf..NaN

\* x <= y on floats: every comparison with NaN is false
FloatLe(x, y) == x # NaN /\ y # NaN /\ x <= y

(* ----------------------------- validators ----------------------------- *)

\* ValidateSymbol with the strip() forgotten
ValidateSymbolNoStrip(symbol) ==
  IF symbol = <<>>
  THEN Raised(ValueError("Symbol cannot be empty"))
  ELSE IF ~EndsWith(Upper(symbol), USDT)
       THEN Raised(ValueError("Symbol must end with USDT for USDT-M Futures"))
       ELSE Returned(Upper(symbol))

ValidateSymbol(symbol) ==
  IF symbol = <<>>
  THEN Raised(ValueError("Symbol cannot be empty"))
  ELSE LET s == Strip(Upper(symbol))
       IN IF ~EndsWith(s, USDT)
          THEN Raised(ValueError("Symbol must end with USDT for USDT-M Futures"))
          ELSE Returned(s)

ValidateQuantity(quantity) ==
  IF FloatLe(quantity, 0)
  THEN Raised(ValueError("Quantity must be greater than 0"))
  ELSE Returned(quantity)

ValidatePrice(price) ==
  IF FloatLe(price, 0)
  THEN Raised(ValueError("Price must be greater than 0"))
  ELSE Returned(price)

\* ValidateSide returning its argument instead of the normalised side
ValidateSideNoUpper(side) ==
  LET s == Strip(Upper(side))
  IN IF s \notin {BUY, SELL}
     THEN Raised(ValueError("Side must be either 'BUY' or 'SELL'"))
     ELSE Returned(side)

\* ValidateSide with the strip() forgotten
ValidateSideNoStrip(side) ==
  LET s == Upper(side)
  IN IF s \notin {BUY, SELL}
     THEN Raised(ValueError("Side must be either 'BUY' or 'SELL'"))
     ELSE Returned(s)

ValidateSide(side) ==
  LET s == Strip(Upper(side))
  IN IF s \notin {BUY, SELL}
     THEN Raised(ValueError("Side must be either 'BUY' or 'SELL'"))
     ELSE Returned(s)

(* ------------------------------ dictionaries -------------------------- *)

\* Python's None
NoneVal == "<None>"

\* A dict display {k1: v1, ..., kn: vn}, given as the sequence of its
\* <<key, value>> pairs: a key written twice keeps the value written last.
RECURSIVE DictLit(_)
DictLit(pairs) ==
  IF Len(pairs) = 0
  THEN <<>>
  ELSE LET last == pairs[Len(pairs)]
       IN (last[1] :> last[2]) @@ DictLit(SubSeq(pairs, 1, Len(pairs) - 1))

\* dict.get(key) / dict.get(key, default)
Get(d, key, default) == IF key \in DOMAIN d THEN d[key] ELSE default

(* ------------------------------ environment --------------------------- *)

\* values of datetime.now().isoformat()
Timestamps == 1..MaxTime

\* quantities and prices handed to the operations
Numbers == (-1)..MaxNum

OrderIds == 0..MaxOrderId

SymbolInputs ==
  { <<>>,
    <<" ">>,
    <<" ","b","t","c","u","s","d","t"," ">>,
    <<"E","T","H","U","S","D","T">>,
    <<"B","T","C","U","S","D">> }

SideInputs ==
  { <<"b","u","y">>,
    <<" ","S","E","L","L"," ">>,
    <<"H","O","L","D">> }

ProviderTypes == {"BinanceAPIException", "BinanceOrderException"}

\* BinanceAPIException(response, status_code, text) keeps the HTTP response it
\* was built from; BinanceOrderException(code, message) has no response.
ProviderErrors ==
  { [type |-> "BinanceAPIException", code |-> "-1121",
     message |-> "Invalid symbol.", response |-> r] : r \in {"Falsy", "WithText"} }
  \cup
  { [type |-> "BinanceOrderException", code |-> "-2010",
     message |-> "Order would immediately trigger.", response |-> "Absent"] }

\* any other exception the remote call can end with
OtherErrors ==
  { [type |-> "ConnectionError", message |-> "Connection refused", response |-> "Absent"],
    [type |-> "Timeout", message |-> "Read timed out", response |-> "Falsy"],
    [type |-> "GatewayError", message |-> "Bad gateway", response |-> "NoText"] }

\* payloads of client.futures_create_order
OrderPayloads ==
  { [orderId |-> 1001, clientOrderId |-> "live1", avgPrice |-> "50000.00", status |-> "FILLED"],
    [orderId |-> 1002, clientOrderId |-> "live2", status |-> "NEW"],
    [orderId |-> 1003, clientOrderId |-> "live3"] }

\* payloads of client.futures_create_oco_order
OcoPayloads ==
  { [orderListId |-> 2001, contingencyType |-> "OCO", listStatusType |-> "RESPONSE",
     listOrderStatus |-> "EXEC_STARTED", listClientOrderId |-> "live4"],
    [orderListId |-> 2002, contingencyType |-> "OCO", listStatusType |-> "EXEC_STARTED",
     listOrderStatus |-> "EXECUTING", listClientOrderId |-> "live5"] }

\* payloads of client.futures_get_order
StatusPayloads ==
  { [orderId |-> 1001, symbol |-> "BTCUSDT", status |-> "CANCELED"],
    [orderId |-> 1002, status |-> "NEW"] }

\* payloads of client.futures_account
AccountPayloads ==
  { [totalWalletBalance |-> "15.00", assets |-> <<>>],
    [totalWalletBalance |-> "0.00"] }

PayloadsOf(method) ==
  CASE method = "futures_create_order"     -> OrderPayloads
    [] method = "futures_create_oco_order" -> OcoPayloads
    [] method = "futures_get_order"        -> StatusPayloads
    [] method = "futures_account"          -> AccountPayloads

NotCalled == [kind |-> "NotCalled"]

\* how one invocation of a method of the remote client can end: it returns a
\* payload, returns something that is no mapping (None), or raises
RemoteOutcomes(method) ==
  { [kind |-> "Return", payload |-> p] : p \in PayloadsOf(method) }
  \cup { [kind |-> "ReturnNone"] }
  \cup { [kind |-> "Raise", exc |-> e] : e \in ProviderErrors \cup OtherErrors }


(* ------------------------------- logging ------------------------------ *)

\* _log_error: reads error.response.text when the exception has a truthy
\* `response`; the read raises AttributeError when that object has no `text`.
LogError(error) ==
  IF error.response = "Absent"
  THEN Returned(NoneVal)
  ELSE IF error.response = "NoText"
       THEN Raised(AttributeError("object has no attribute 'text'"))
       ELSE Returned(NoneVal)

(* ----------------------------- operations ----------------------------- *)

\* The first of a sequence of validator completions that raised, in the
\* order the statements are written; none when every validator returned.
FirstRaised(vs) ==
  LET bad == {i \in 1..Len(vs) : vs[i].kind = "Raised"}
  IN IF bad = {}
     THEN <<>>
     ELSE <<vs[CHOOSE i \in bad : \A j \in bad : i <= j]>>

\* ErrorResult with one fixed message for every exception
ErrorResultGeneric(e, ts) ==
  DictLit(<< <<"status", "ERROR">>,
             <<"error", <<"Request failed">> >>,
             <<"timestamp", ts>> >>)

\* ErrorResult putting the time of the failure into the message
ErrorResultStamped(e, ts) ==
  DictLit(<< <<"status", "ERROR">>,
             <<"error", StrOf(e) \o <<ts>> >>,
             <<"timestamp", ts>> >>)

\* ErrorResult keeping a raw_response field, as the SUCCESS results do
ErrorResultWithPayload(e, ts) ==
  DictLit(<< <<"status", "ERROR">>,
             <<"error", StrOf(e)>>,
             <<"timestamp", ts>>,
             <<"raw_response", NoneVal>> >>)

\* the ERROR result of the except clauses
ErrorResult(e, ts) ==
  DictLit(<< <<"status", "ERROR">>,
             <<"error", StrOf(e)>>,
             <<"timestamp", ts>> >>)

\* the except clauses of an operation: log the error, return the ERROR result
ExceptClause(e, ts) ==
  LET logged == LogError(e)
  IN IF logged.kind = "Raised" THEN logged ELSE Returned(ErrorResult(e, ts))

\* Dispatch invoking the remote method a second time after it raised
DispatchRetry(vs, method, params, canned, out) ==
  LET bad == FirstRaised(vs)
      call == [method |-> method, params |-> params]
  IN IF bad # <<>>
     THEN [response |-> bad[1], calls |-> <<>>]
     ELSE IF demo
          THEN [response |-> Returned(canned), calls |-> <<>>]
          ELSE [response |-> CASE out.kind = "Raise"      -> Raised(out.exc)
                               [] out.kind = "ReturnNone" -> Returned(NoneVal)
                               [] OTHER                   -> Returned(out.payload),
                calls |-> IF out.kind = "Raise" THEN <<call, call>> ELSE <<call>>]

\* Dispatch invoking the remote client in simulated mode as well
DispatchDemoInvokes(vs, method, params, canned, out) ==
  LET bad == FirstRaised(vs)
  IN IF bad # <<>>
     THEN [response |-> bad[1], calls |-> <<>>]
     ELSE IF demo
          THEN [response |-> Returned(canned),
                calls |-> << [method |-> method, params |-> params] >>]
          ELSE [response |-> CASE out.kind = "Raise"      -> Raised(out.exc)
                               [] out.kind = "ReturnNone" -> Returned(NoneVal)
                               [] OTHER                   -> Returned(out.payload),
                calls |-> << [method |-> method, params |-> params] >>]

\* The start of the try block of an operation: the validators vs run in
\* order, then simulated mode takes the canned payload and live mode invokes
\* the remote client's method with params, which ends as out says.  Yields
\* the response (or the exception raised) and the remote invocations made.
Dispatch(vs, method, params, canned, out) ==
  LET bad == FirstRaised(vs)
  IN IF bad # <<>>
     THEN [response |-> bad[1], calls |-> <<>>]
     ELSE IF demo
          THEN [response |-> Returned(canned), calls |-> <<>>]
          ELSE [response |-> CASE out.kind = "Raise"      -> Raised(out.exc)
                               [] out.kind = "ReturnNone" -> Returned(NoneVal)
                               [] OTHER                   -> Returned(out.payload),
                calls |-> << [method |-> method, params |-> params] >>]

\* response.get(...) on what the remote client returned: None has no `get`
ResponseGet(d, out, formatted) ==
  IF d.calls # <<>> /\ out.kind = "ReturnNone"
  THEN Raised(AttributeError("'NoneType' object has no attribute 'get'"))
  ELSE Returned(formatted)

\* an operation method: its try block, then its except clauses
Operation(block, ts) ==
  IF block.completion.kind = "Raised"
  THEN ExceptClause(block.completion.exc, ts)
  ELSE block.completion

\* MarketOrderChecks validating the quantity before the symbol and the side
MarketOrderChecksQuantityFirst(symbol, side, quantity) ==
  <<ValidateQuantity(quantity), ValidateSymbol(symbol), ValidateSide(side)>>

MarketOrderChecks(symbol, side, quantity) ==
  <<ValidateSymbol(symbol), ValidateSide(side), ValidateQuantity(quantity)>>

MarketOrderCanned ==
  [orderId |-> 123456, clientOrderId |-> "demo123",
   avgPrice |-> "50000.00", status |-> "FILLED"]

MarketOrderParams(vs) ==
  [symbol |-> vs[1].value, side |-> vs[2].value,
   type |-> "MARKET", quantity |-> vs[3].value]

\* MarketOrderFormat reporting a price only when the payload has avgPrice
MarketOrderFormatOptionalPrice(vs, response, ts) ==
  DictLit(<< <<"status", "SUCCESS">>,
             <<"order_type", "MARKET">>,
             <<"symbol", vs[1].value>>,
             <<"side", vs[2].value>>,
             <<"quantity", vs[3].value>>,
             <<"order_id", Get(response, "orderId", NoneVal)>>,
             <<"client_order_id", Get(response, "clientOrderId", NoneVal)>> >>
          \o (IF "avgPrice" \in DOMAIN response
              THEN << <<"price", response.avgPrice>> >> ELSE <<>>)
          \o << <<"status", Get(response, "status", NoneVal)>>,
                <<"timestamp", ts>>,
                <<"raw_response", response>> >>)

MarketOrderFormat(vs, response, ts) ==
  DictLit(<< <<"status", "SUCCESS">>,
             <<"order_type", "MARKET">>,
             <<"symbol", vs[1].value>>,
             <<"side", vs[2].value>>,
             <<"quantity", vs[3].value>>,
             <<"order_id", Get(response, "orderId", NoneVal)>>,
             <<"client_order_id", Get(response, "clientOrderId", NoneVal)>>,
             <<"price", Get(response, "avgPrice", "N/A")>>,
             <<"status", Get(response, "status", NoneVal)>>,
             <<"timestamp", ts>>,
             <<"raw_response", response>> >>)

PlaceMarketOrderTry(symbol, side, quantity, out, ts) ==
  LET vs == MarketOrderChecks(symbol, side, quantity)
      d == Dispatch(vs, "futures_create_order", MarketOrderParams(vs),
                    MarketOrderCanned, out)
  IN [completion |-> IF d.response.kind = "Raised"
                     THEN d.response
                     ELSE ResponseGet(d, out,
                            MarketOrderFormat(vs, d.response.value, ts)),
      calls |-> d.calls]

\* LimitOrderChecks with the price left unvalidated
LimitOrderChecksNoPrice(symbol, side, quantity, price) ==
  <<ValidateSymbol(symbol), ValidateSide(side),
    ValidateQuantity(quantity), Returned(price)>>

LimitOrderChecks(symbol, side, quantity, price) ==
  <<ValidateSymbol(symbol), ValidateSide(side),
    ValidateQuantity(quantity), ValidatePrice(price)>>

LimitOrderCanned ==
  [orderId |-> 234567, clientOrderId |-> "demoLimit",
   status |-> "NEW"]

LimitOrderParams(vs) ==
  [symbol |-> vs[1].value, side |-> vs[2].value,
   type |-> "LIMIT", timeInForce |-> "GTC",
   quantity |-> vs[3].value, price |-> vs[4].value]

LimitOrderFormat(vs, response, ts) ==
  DictLit(<< <<"status", "SUCCESS">>,
             <<"order_type", "LIMIT">>,
             <<"symbol", vs[1].value>>,
             <<"side", vs[2].value>>,
             <<"quantity", vs[3].value>>,
             <<"price", vs[4].value>>,
             <<"order_id", Get(response, "orderId", NoneVal)>>,
             <<"client_order_id", Get(response, "clientOrderId", NoneVal)>>,
             <<"status", Get(response, "status", NoneVal)>>,
             <<"timestamp", ts>>,
             <<"raw_response", response>> >>)

PlaceLimitOrderTry(symbol, side, quantity, price, out, ts) ==
  LET vs == LimitOrderChecks(symbol, side, quantity, price)
      d == Dispatch(vs, "futures_create_order", LimitOrderParams(vs),
                    LimitOrderCanned, out)
  IN [completion |-> IF d.response.kind = "Raised"
                     THEN d.response
                     ELSE ResponseGet(d, out,
                            LimitOrderFormat(vs, d.response.value, ts)),
      calls |-> d.calls]

StopMarketOrderChecks(symbol, side, quantity, stop_price) ==
  <<ValidateSymbol(symbol), ValidateSide(side),
    ValidateQuantity(quantity), ValidatePrice(stop_price)>>

StopMarketOrderCanned ==
  [orderId |-> 345678, clientOrderId |-> "demoStop",
   status |-> "NEW"]

StopMarketOrderParams(vs) ==
  [symbol |-> vs[1].value, side |-> vs[2].value,
   type |-> "STOP_MARKET", quantity |-> vs[3].value,
   stopPrice |-> vs[4].value]

StopMarketOrderFormat(vs, response, ts) ==
  DictLit(<< <<"status", "SUCCESS">>,
             <<"order_type", "STOP_MARKET">>,
             <<"symbol", vs[1].value>>,
             <<"side", vs[2].value>>,
             <<"quantity", vs[3].value>>,
             <<"stop_price", vs[4].value>>,
             <<"order_id", Get(response, "orderId", NoneVal)>>,
             <<"client_order_id", Get(response, "clientOrderId", NoneVal)>>,
             <<"status", Get(response, "status", NoneVal)>>,
             <<"timestamp", ts>>,
             <<"raw_response", response>> >>)

PlaceStopMarketOrderTry(symbol, side, quantity, stop_price, out, ts) ==
  LET vs == StopMarketOrderChecks(symbol, side, quantity, stop_price)
      d == Dispatch(vs, "futures_create_order", StopMarketOrderParams(vs),
                    StopMarketOrderCanned, out)
  IN [completion |-> IF d.response.kind = "Raised"
                     THEN d.response
                     ELSE ResponseGet(d, out,
                            StopMarketOrderFormat(vs, d.response.value, ts)),
      calls |-> d.calls]

GetAccountInfoTry(out, ts) ==
  LET d == Dispatch(<<>>, "futures_account", <<>>,
                    [totalWalletBalance |-> "10000.00",
                     totalUnrealizedProfit |-> "0.00",
                     assets |-> << [asset |-> "USDT",
                                    walletBalance |-> "10000.00",
                                    unrealizedProfit |-> "0.00"] >>],
                    out)
  IN [completion |-> IF d.response.kind = "Raised"
                     THEN d.response
                     ELSE Returned(DictLit(<< <<"status", "SUCCESS">>,
                                              <<"account_info", d.response.value>>,
                                              <<"timestamp", ts>> >>)),
      calls |-> d.calls]

\* OcoOrderChecks with a check of the price ordering against the side added
OcoOrderChecksOrdered(symbol, side, quantity, limit_price, stop_price, stop_limit_price) ==
  <<ValidateSymbol(symbol), ValidateSide(side), ValidateQuantity(quantity),
    ValidatePrice(limit_price), ValidatePrice(stop_price),
    ValidatePrice(stop_limit_price),
    IF Strip(Upper(side)) = BUY /\ limit_price <= stop_price
    THEN Raised(ValueError("For BUY orders: Limit price should be higher than stop price"))
    ELSE IF Strip(Upper(side)) = SELL /\ limit_price >= stop_price
         THEN Raised(ValueError("For SELL orders: Limit price should be lower than stop price"))
         ELSE Returned(NoneVal)>>

OcoOrderChecks(symbol, side, quantity, limit_price, stop_price, stop_limit_price) ==
  <<ValidateSymbol(symbol), ValidateSide(side), ValidateQuantity(quantity),
    ValidatePrice(limit_price), ValidatePrice(stop_price),
    ValidatePrice(stop_limit_price)>>

OcoOrderCanned ==
  [orderListId |-> 456789, contingencyType |-> "OCO",
   listStatusType |-> "RESPONSE",
   listOrderStatus |-> "EXEC_STARTED",
   listClientOrderId |-> "demoOCO"]

\* OcoOrderParams with the limit and stop prices exchanged
OcoOrderParamsSwapped(vs) ==
  [symbol |-> vs[1].value, side |-> vs[2].value,
   quantity |-> vs[3].value, price |-> vs[5].value,
   stopPrice |-> vs[4].value, stopLimitPrice |-> vs[6].value,
   stopLimitTimeInForce |-> "GTC"]

OcoOrderParams(vs) ==
  [symbol |-> vs[1].value, side |-> vs[2].value,
   quantity |-> vs[3].value, price |-> vs[4].value,
   stopPrice |-> vs[5].value, stopLimitPrice |-> vs[6].value,
   stopLimitTimeInForce |-> "GTC"]

OcoOrderFormat(vs, response, ts) ==
  DictLit(<< <<"status", "SUCCESS">>,
             <<"order_type", "OCO">>,
             <<"symbol", vs[1].value>>,
             <<"side", vs[2].value>>,
             <<"quantity", vs[3].value>>,
             <<"limit_price", vs[4].value>>,
             <<"stop_price", vs[5].value>>,
             <<"stop_limit_price", vs[6].value>>,
             <<"order_list_id", Get(response, "orderListId", NoneVal)>>,
             <<"contingency_type", Get(response, "contingencyType", NoneVal)>>,
             <<"list_status_type", Get(response, "listStatusType", NoneVal)>>,
             <<"list_order_status", Get(response, "listOrderStatus", NoneVal)>>,
             <<"timestamp", ts>>,
             <<"raw_response", response>> >>)

PlaceOcoOrderTry(symbol, side, quantity, limit_price, stop_price, stop_limit_price, out, ts) ==
  LET vs == OcoOrderChecks(symbol, side, quantity, limit_price, stop_price,
                           stop_limit_price)
      d == Dispatch(vs, "futures_create_oco_order", OcoOrderParams(vs),
                    OcoOrderCanned, out)
  IN [completion |-> IF d.response.kind = "Raised"
                     THEN d.response
                     ELSE ResponseGet(d, out,
                            OcoOrderFormat(vs, d.response.value, ts)),
      calls |-> d.calls]

OrderStatusChecks(symbol) == <<ValidateSymbol(symbol)>>

\* GetOrderStatusTry refusing an order id that is not positive
GetOrderStatusTryCheckingId(symbol, order_id, out, ts) ==
  LET vs == OrderStatusChecks(symbol)
          \o << IF order_id <= 0
                THEN Raised(ValueError("Order id must be greater than 0"))
                ELSE Returned(order_id) >>
      d == Dispatch(vs, "futures_get_order",
                    [symbol |-> vs[1].value, orderId |-> order_id],
                    [orderId |-> order_id, symbol |-> vs[1].value,
                     status |-> "FILLED", price |-> "50000.00",
                     avgPrice |-> "50000.00", executedQty |-> "0.001"],
                    out)
  IN [completion |-> IF d.response.kind = "Raised"
                     THEN d.response
                     ELSE Returned(DictLit(<< <<"status", "SUCCESS">>,
                                              <<"order_status", d.response.value>>,
                                              <<"timestamp", ts>> >>)),
      calls |-> d.calls]

GetOrderStatusTry(symbol, order_id, out, ts) ==
  LET vs == OrderStatusChecks(symbol)
      d == Dispatch(vs, "futures_get_order",
                    [symbol |-> vs[1].value, orderId |-> order_id],
                    [orderId |-> order_id, symbol |-> vs[1].value,
                     status |-> "FILLED", price |-> "50000.00",
                     avgPrice |-> "50000.00", executedQty |-> "0.001"],
                    out)
  IN [completion |-> IF d.response.kind = "Raised"
                     THEN d.response
                     ELSE Returned(DictLit(<< <<"status", "SUCCESS">>,
                                              <<"order_status", d.response.value>>,
                                              <<"timestamp", ts>> >>)),
      calls |-> d.calls]

(* ------------------------------- actions ------------------------------ *)

\* The ways the remote client can answer a call of an operation: it is
\* invoked only in live mode and only when every validator returned.
OutcomesFor(vs, method) ==
  IF demo \/ FirstRaised(vs) # <<>> THEN {NotCalled} ELSE RemoteOutcomes(method)

\* Call giving up the client when the try block raised
CallDroppingClient(name, a, block, out, ts) ==
  /\ op' = name
  /\ args' = a
  /\ calls' = block.calls
  /\ outcome' = out
  /\ caught' = IF block.completion.kind = "Raised"
               THEN <<block.completion.exc>> ELSE <<>>
  /\ ret' = Operation(block, ts)
  /\ client' = IF block.completion.kind = "Raised" THEN "None" ELSE client
  /\ UNCHANGED <<demo, prevTransportError, prev, botCalls, printed, otherVars>>

\* One call of an operation method on the instance, from entry to return (or
\* to the exception leaving it).  block is the completion of its try block.
Call(name, a, block, out, ts) ==
  /\ op' = name
  /\ args' = a
  /\ calls' = block.calls
  /\ outcome' = out
  /\ caught' = IF block.completion.kind = "Raised"
               THEN <<block.completion.exc>> ELSE <<>>
  /\ ret' = Operation(block, ts)
  /\ UNCHANGED <<demo, client, prevTransportError, prev, botCalls, printed, otherVars>>

\* place_market_order with its arguments drawn from the given sets
PlaceMarketOrder(symbols, sides, numbers) ==
  /\ op = "idle"
  /\ \E symbol \in symbols, side \in sides, quantity \in numbers,
        ts \in Timestamps :
       \E out \in OutcomesFor(MarketOrderChecks(symbol, side, quantity),
                              "futures_create_order") :
         Call("place_market_order",
              [symbol |-> symbol, side |-> side, quantity |-> quantity],
              PlaceMarketOrderTry(symbol, side, quantity, out, ts), out, ts)

place_market_order == PlaceMarketOrder(SymbolInputs, SideInputs, Numbers)

\* place_limit_order with its arguments drawn from the given sets
PlaceLimitOrder(symbols, sides, numbers) ==
  /\ op = "idle"
  /\ \E symbol \in symbols, side \in sides, quantity \in numbers,
        price \in numbers, ts \in Timestamps :
       \E out \in OutcomesFor(LimitOrderChecks(symbol, side, quantity, price),
                              "futures_create_order") :
         Call("place_limit_order",
              [symbol |-> symbol, side |-> side, quantity |-> quantity,
               price |-> price],
              PlaceLimitOrderTry(symbol, side, quantity, price, out, ts), out, ts)

place_limit_order == PlaceLimitOrder(SymbolInputs, SideInputs, Numbers)

\* place_stop_market_order with its arguments drawn from the given sets
PlaceStopMarketOrder(symbols, sides, numbers) ==
  /\ op = "idle"
  /\ \E symbol \in symbols, side \in sides, quantity \in numbers,
        stop_price \in numbers, ts \in Timestamps :
       \E out \in OutcomesFor(StopMarketOrderChecks(symbol, side, quantity,
                                                    stop_price),
                              "futures_create_order") :
         Call("place_stop_market_order",
              [symbol |-> symbol, side |-> side, quantity |-> quantity,
               stop_price |-> stop_price],
              PlaceStopMarketOrderTry(symbol, side, quantity, stop_price, out, ts),
              out, ts)

place_stop_market_order == PlaceStopMarketOrder(SymbolInputs, SideInputs, Numbers)

get_account_info ==
  /\ op = "idle"
  /\ \E ts \in Timestamps :
       \E out \in OutcomesFor(<<>>, "futures_account") :
         Call("get_account_info", <<>>, GetAccountInfoTry(out, ts), out, ts)

\* place_oco_order with its arguments drawn from the given sets
PlaceOcoOrder(symbols, sides, numbers) ==
  /\ op = "idle"
  /\ \E symbol \in symbols, side \in sides, quantity \in numbers,
        limit_price \in numbers, stop_price \in numbers,
        stop_limit_price \in numbers, ts \in Timestamps :
       \E out \in OutcomesFor(OcoOrderChecks(symbol, side, quantity, limit_price,
                                             stop_price, stop_limit_price),
                              "futures_create_oco_order") :
         Call("place_oco_order",
              [symbol |-> symbol, side |-> side, quantity |-> quantity,
               limit_price |-> limit_price, stop_price |-> stop_price,
               stop_limit_price |-> stop_limit_price],
              PlaceOcoOrderTry(symbol, side, quantity, limit_price, stop_price,
                               stop_limit_price, out, ts),
              out, ts)

place_oco_order == PlaceOcoOrder(SymbolInputs, SideInputs, Numbers)

\* get_order_status with its arguments drawn from the given sets
GetOrderStatus(symbols, ids) ==
  /\ op = "idle"
  /\ \E symbol \in symbols, order_id \in ids, ts \in Timestamps :
       \E out \in OutcomesFor(OrderStatusChecks(symbol), "futures_get_order") :
         Call("get_order_status",
              [symbol |-> symbol, order_id |-> order_id],
              GetOrderStatusTry(symbol, order_id, out, ts), out, ts)

get_order_status == GetOrderStatus(SymbolInputs, OrderIds)

\* a transport failure: the remote invocation made by the call ended in an
\* exception that is no provider error, and the call returned a result
TransportFailure ==
  /\ calls # <<>>
  /\ caught # <<>>
  /\ caught[1].type \notin ProviderTypes
  /\ ret.kind = "Returned"

\* The caller is done with the result of the call; the instance is ready for
\* the next call.
Idle ==
  /\ op # "idle"
  /\ op' = "idle"
  /\ args' = <<>>
  /\ calls' = <<>>
  /\ outcome' = NotCalled
  /\ caught' = <<>>
  /\ ret' = Returned(NoneVal)
  /\ prevTransportError' =
       IF TransportFailure THEN ret.value["error"] ELSE prevTransportError
  /\ UNCHANGED <<demo, client, prev, botCalls, printed, otherVars>>

\* BasicBot.__init__ has run: simulated mode leaves the client unset, live
\* mode holds a Client
Init ==
  /\ demo \in BOOLEAN
  /\ client = IF demo THEN "None" ELSE "Client"
  /\ op = "idle"
  /\ args = <<>>
  /\ calls = <<>>
  /\ outcome = NotCalled
  /\ caught = <<>>
  /\ ret = Returned(NoneVal)
  /\ prevTransportError = <<>>
  /\ prev = <<>>
  /\ botCalls = <<>>
  /\ printed = <<>>
  /\ NoGui
  /\ NoLauncher

Next ==
  \/ place_market_order
  \/ place_limit_order
  \/ place_stop_market_order
  \/ get_account_info
  \/ place_oco_order
  \/ get_order_status
  \/ Idle

Spec == Init /\ [][Next]_vars


(* ------------------ calls whose results the caller keeps -------------- *)

\* inputs of the calls a caller repeats: a symbol that is accepted and one
\* that is rejected, one side, a rejected and an accepted number
RepeatSymbols == { <<" ","b","t","c","u","s","d","t"," ">>,
                   <<"B","T","C","U","S","D">> }
RepeatSides == { <<"b","u","y">> }
RepeatNumbers == 0..1
RepeatOrderIds == {0}

\* The caller keeps the call just made and its result (result = bot.op(...));
\* the instance is ready for the next call.
Remember ==
  /\ op # "idle"
  /\ prev' = << [op |-> op, args |-> args, outcome |-> outcome, ret |-> ret] >>
  /\ op' = "idle"
  /\ args' = <<>>
  /\ calls' = <<>>
  /\ outcome' = NotCalled
  /\ caught' = <<>>
  /\ ret' = Returned(NoneVal)
  /\ prevTransportError' =
       IF TransportFailure THEN ret.value["error"] ELSE prevTransportError
  /\ UNCHANGED <<demo, client, botCalls, printed, otherVars>>

NextRepeat ==
  \/ PlaceMarketOrder(RepeatSymbols, RepeatSides, RepeatNumbers)
  \/ PlaceLimitOrder(RepeatSymbols, RepeatSides, RepeatNumbers)
  \/ PlaceStopMarketOrder(RepeatSymbols, RepeatSides, RepeatNumbers)
  \/ get_account_info
  \/ PlaceOcoOrder(RepeatSymbols, RepeatSides, RepeatNumbers)
  \/ GetOrderStatus(RepeatSymbols, RepeatOrderIds)
  \/ Remember

RepeatSpec == Init /\ [][NextRepeat]_vars

(* ---------------------------- construction --------------------------- *)

\* what a constructor parameter or an environment variable can hold: None
\* (not given / not set), the empty string, or a value
KeyInputs == {NoneVal, "", "key"}
SecretInputs == {NoneVal, "", "secret"}

\* Python truth of None and of a string, and `a or b`
Truthy(x) == x \notin {NoneVal, ""}
Or(a, b) == IF Truthy(a) THEN a ELSE b

OSError(msg) == [type |-> "OSError", message |-> msg, response |-> "Absent"]

\* how _setup_logging ends: the logs directory and logs/bot.log can be
\* created, or the file system refuses
LoggingOutcomes ==
  {Returned(NoneVal), Raised(OSError("[Errno 13] Permission denied: 'logs'"))}

\* how Client(...) ends: it returns the client or raises
ClientOutcomes ==
  {[kind |-> "Return"]} \cup {[kind |-> "Raise", exc |-> e] : e \in OtherErrors}

CredentialsRequired ==
  "API credentials are required. Set BINANCE_API_KEY and BINANCE_API_SECRET environment variables or pass them as parameters."

\* BasicBotInit raising only when both credentials are missing
BasicBotInitWhenBothMissing(api_key, api_secret, d, env, logging, clientOut) ==
  IF logging.kind = "Raised"
  THEN [completion |-> logging, client |-> "Unset", calls |-> <<>>]
  ELSE IF d
       THEN [completion |-> Returned(NoneVal), client |-> "None", calls |-> <<>>]
       ELSE LET key == Or(api_key, env.BINANCE_API_KEY)
                secret == Or(api_secret, env.BINANCE_API_SECRET)
                call == [method |-> "Client",
                         params |-> [api_key |-> key, api_secret |-> secret,
                                     testnet |-> TRUE,
                                     base_url |-> "https://testnet.binancefuture.com"]]
            IN IF ~Truthy(key) /\ ~Truthy(secret)
               THEN [completion |-> Raised(ValueError(CredentialsRequired)),
                     client |-> "Unset", calls |-> <<>>]
               ELSE IF clientOut.kind = "Raise"
                    THEN [completion |-> Raised(clientOut.exc),
                          client |-> "Unset", calls |-> <<call>>]
                    ELSE [completion |-> Returned(NoneVal),
                          client |-> "Client", calls |-> <<call>>]

\* BasicBot.__init__(api_key, api_secret, demo) in the environment env (as
\* load_dotenv() left it): how it completes, the client attribute it leaves
\* ("Unset" when it was never assigned) and the constructions of a remote
\* client it made.
BasicBotInit(api_key, api_secret, d, env, logging, clientOut) ==
  IF logging.kind = "Raised"
  THEN [completion |-> logging, client |-> "Unset", calls |-> <<>>]
  ELSE IF d
       THEN [completion |-> Returned(NoneVal), client |-> "None", calls |-> <<>>]
       ELSE LET key == Or(api_key, env.BINANCE_API_KEY)
                secret == Or(api_secret, env.BINANCE_API_SECRET)
                call == [method |-> "Client",
                         params |-> [api_key |-> key, api_secret |-> secret,
                                     testnet |-> TRUE,
                                     base_url |-> "https://testnet.binancefuture.com"]]
            IN IF ~Truthy(key) \/ ~Truthy(secret)
               THEN [completion |-> Raised(ValueError(CredentialsRequired)),
                     client |-> "Unset", calls |-> <<>>]
               ELSE IF clientOut.kind = "Raise"
                    THEN [completion |-> Raised(clientOut.exc),
                          client |-> "Unset", calls |-> <<call>>]
                    ELSE [completion |-> Returned(NoneVal),
                          client |-> "Client", calls |-> <<call>>]

\* before the constructor runs: its arguments and the environment are chosen
InitConstruct ==
  /\ demo = FALSE
  /\ client = "Unset"
  /\ op = "idle"
  /\ args \in [api_key : KeyInputs, api_secret : SecretInputs, demo : BOOLEAN,
               BINANCE_API_KEY : KeyInputs, BINANCE_API_SECRET : SecretInputs]
  /\ calls = <<>>
  /\ outcome = NotCalled
  /\ caught = <<>>
  /\ ret = Returned(NoneVal)
  /\ prevTransportError = <<>>
  /\ prev = <<>>
  /\ botCalls = <<>>
  /\ printed = <<>>
  /\ NoGui
  /\ NoLauncher

\* BasicBot(api_key, api_secret, demo)
BasicBot ==
  /\ op = "idle"
  /\ \E logging \in LoggingOutcomes, clientOut \in ClientOutcomes :
       LET r == BasicBotInit(args.api_key, args.api_secret, args.demo,
                             args, logging, clientOut)
       IN /\ op' = "BasicBot"
          /\ demo' = args.demo
          /\ client' = r.client
          /\ calls' = r.calls
          /\ ret' = r.completion
  /\ UNCHANGED <<args, outcome, caught, prevTransportError, prev, botCalls,
                 printed, otherVars>>

NextConstruct == BasicBot

ConstructSpec == InitConstruct /\ [][NextConstruct]_vars

(* ------------------------- the command line -------------------------- *)

\* An optional command-line flag: <<>> when absent (argparse leaves None),
\* <<v>> when given with value v.
Optional(S) == {<<>>} \cup {<<v>> : v \in S}

CliSymbols == { <<>>, <<"E","T","H","U","S","D","T">>, <<"B","T","C","U","S","D">> }
CliSides == {BUY}
CliOrderTypes == {"MARKET", "LIMIT", "STOP_MARKET", "OCO"}
CliNumbers == 0..1

\* what parse_args() can return
CliArgs ==
  [api_key : {NoneVal, "key"}, api_secret : {"secret"}, demo : BOOLEAN,
   symbol : Optional(CliSymbols), side : Optional(CliSides),
   order_type : Optional(CliOrderTypes), quantity : Optional(CliNumbers),
   price : Optional(CliNumbers), stop_price : Optional(CliNumbers),
   limit_price : Optional(CliNumbers), stop_limit_price : Optional(CliNumbers),
   account_info : BOOLEAN]

\* the environment main() runs in: no credentials set
CliEnvironment == [BINANCE_API_KEY |-> NoneVal, BINANCE_API_SECRET |-> NoneVal]

\* Python truth of a numeric flag: None is false, and so is the number 0
TruthyFlag(o) == o # <<>> /\ o[1] # 0
\* Python truth of a text flag: None is false, and so is the empty string
TruthyText(o) == o # <<>> /\ o[1] # <<>>
\* Python truth of a flag with choices: None is false, every choice is true
TruthyChoice(o) == o # <<>>

RequiredMissing ==
  <<"Error: symbol, side, order-type, and quantity are required for order placement">>

\* CliRoute looking at the order flags before --account-info
CliRouteOrderFirst(a) ==
  IF ~(TruthyText(a.symbol) /\ TruthyChoice(a.side) /\ TruthyChoice(a.order_type)
       /\ TruthyFlag(a.quantity))
  THEN IF a.account_info THEN [call |-> "get_account_info"]
       ELSE [error |-> RequiredMissing]
  ELSE CASE a.order_type[1] = "MARKET" -> [call |-> "place_market_order"]
         [] a.order_type[1] = "LIMIT" ->
              IF ~TruthyFlag(a.price)
              THEN [error |-> <<"Error: price is required for LIMIT orders">>]
              ELSE [call |-> "place_limit_order"]
         [] a.order_type[1] = "STOP_MARKET" ->
              IF ~TruthyFlag(a.stop_price)
              THEN [error |-> <<"Error: stop-price is required for STOP_MARKET orders">>]
              ELSE [call |-> "place_stop_market_order"]
         [] a.order_type[1] = "OCO" ->
              IF ~(TruthyFlag(a.limit_price) /\ TruthyFlag(a.stop_price)
                   /\ TruthyFlag(a.stop_limit_price))
              THEN [error |-> <<"Error: limit-price, stop-price, and stop-limit-price are required for OCO orders">>]
              ELSE [call |-> "place_oco_order"]
         [] OTHER ->
              [error |-> <<"Error: Unsupported order type: ", a.order_type[1]>>]

\* The branch main() takes once the bot is constructed: the operation it
\* calls, or the error message it prints before returning.
CliRoute(a) ==
  IF a.account_info
  THEN [call |-> "get_account_info"]
  ELSE IF ~(TruthyText(a.symbol) /\ TruthyChoice(a.side) /\ TruthyChoice(a.order_type)
            /\ TruthyFlag(a.quantity))
  THEN [error |-> RequiredMissing]
  ELSE CASE a.order_type[1] = "MARKET" -> [call |-> "place_market_order"]
         [] a.order_type[1] = "LIMIT" ->
              IF ~TruthyFlag(a.price)
              THEN [error |-> <<"Error: price is required for LIMIT orders">>]
              ELSE [call |-> "place_limit_order"]
         [] a.order_type[1] = "STOP_MARKET" ->
              IF ~TruthyFlag(a.stop_price)
              THEN [error |-> <<"Error: stop-price is required for STOP_MARKET orders">>]
              ELSE [call |-> "place_stop_market_order"]
         [] a.order_type[1] = "OCO" ->
              IF ~(TruthyFlag(a.limit_price) /\ TruthyFlag(a.stop_price)
                   /\ TruthyFlag(a.stop_limit_price))
              THEN [error |-> <<"Error: limit-price, stop-price, and stop-limit-price are required for OCO orders">>]
              ELSE [call |-> "place_oco_order"]
         [] OTHER ->
              [error |-> <<"Error: Unsupported order type: ", a.order_type[1]>>]

\* the validators and the remote method of the operation main() calls
CliChecks(call, a) ==
  CASE call = "place_market_order" ->
         MarketOrderChecks(a.symbol[1], a.side[1], a.quantity[1])
    [] call = "place_limit_order" ->
         LimitOrderChecks(a.symbol[1], a.side[1], a.quantity[1], a.price[1])
    [] call = "place_stop_market_order" ->
         StopMarketOrderChecks(a.symbol[1], a.side[1], a.quantity[1],
                               a.stop_price[1])
    [] call = "place_oco_order" ->
         OcoOrderChecks(a.symbol[1], a.side[1], a.quantity[1], a.limit_price[1],
                        a.stop_price[1], a.stop_limit_price[1])
    [] OTHER -> <<>>

CliMethod(call) ==
  CASE call = "get_account_info" -> "futures_account"
    [] call = "place_oco_order"  -> "futures_create_oco_order"
    [] OTHER                     -> "futures_create_order"

\* the try block of the operation main() calls, with the flags it passes
CliBlock(call, a, out, ts) ==
  CASE call = "place_market_order" ->
         PlaceMarketOrderTry(a.symbol[1], a.side[1], a.quantity[1], out, ts)
    [] call = "place_limit_order" ->
         PlaceLimitOrderTry(a.symbol[1], a.side[1], a.quantity[1], a.price[1],
                            out, ts)
    [] call = "place_stop_market_order" ->
         PlaceStopMarketOrderTry(a.symbol[1], a.side[1], a.quantity[1],
                                 a.stop_price[1], out, ts)
    [] call = "place_oco_order" ->
         PlaceOcoOrderTry(a.symbol[1], a.side[1], a.quantity[1],
                          a.limit_price[1], a.stop_price[1],
                          a.stop_limit_price[1], out, ts)
    [] OTHER -> GetAccountInfoTry(out, ts)

\* print(json.dumps(result, indent=2)) and print(f"Error: ...")
PrintResult(result) == [kind |-> "result", value |-> result]
PrintError(text) == [kind |-> "error", text |-> text]

\* main() ends: the client the constructor left, the operations called on the
\* bot, what the operation did, and the one thing printed
MainEnds(c, called, invoked, out, exc, completion, line) ==
  /\ op' = "main"
  /\ client' = c
  /\ botCalls' = called
  /\ calls' = invoked
  /\ outcome' = out
  /\ caught' = exc
  /\ ret' = completion
  /\ printed' = <<line>>
  /\ UNCHANGED <<demo, args, prevTransportError, prev, otherVars>>

\* One run of main() after parse_args(): construct the bot, take the branch
\* the flags select, print; an exception from any of it is printed by the
\* handler at the end.
main ==
  /\ op = "idle"
  /\ \E logging \in LoggingOutcomes, clientOut \in ClientOutcomes :
       LET r == BasicBotInit(args.api_key, args.api_secret, args.demo,
                             CliEnvironment, logging, clientOut)
           route == CliRoute(args)
       IN IF r.completion.kind = "Raised"
          THEN MainEnds(r.client, <<>>, <<>>, NotCalled, <<>>, r.completion,
                        PrintError(<<"Error: ">> \o StrOf(r.completion.exc)))
          ELSE IF "error" \in DOMAIN route
          THEN MainEnds(r.client, <<>>, <<>>, NotCalled, <<>>,
                        Returned(NoneVal), PrintError(route.error))
          ELSE \E ts \in Timestamps :
                 \E out \in OutcomesFor(CliChecks(route.call, args),
                                        CliMethod(route.call)) :
                   LET block == CliBlock(route.call, args, out, ts)
                       done == Operation(block, ts)
                   IN MainEnds(r.client, <<route.call>>, block.calls, out,
                               IF block.completion.kind = "Raised"
                               THEN <<block.completion.exc>> ELSE <<>>,
                               done,
                               IF done.kind = "Returned"
                               THEN PrintResult(done.value)
                               ELSE PrintError(<<"Error: ">> \o StrOf(done.exc)))

\* the process starts: the flags are parsed; demo is the mode they ask for
InitMain ==
  /\ args \in CliArgs
  /\ demo = args.demo
  /\ client = "Unset"
  /\ op = "idle"
  /\ calls = <<>>
  /\ outcome = NotCalled
  /\ caught = <<>>
  /\ ret = Returned(NoneVal)
  /\ prevTransportError = <<>>
  /\ prev = <<>>
  /\ botCalls = <<>>
  /\ printed = <<>>
  /\ NoGui
  /\ NoLauncher

NextMain == main

MainSpec == InitMain /\ [][NextMain]_vars

(* ------------------------------ the GUI ------------------------------- *)

\* The text of a numeric entry: <<>> when float() cannot parse it, <<v>>
\* when it parses to the float v.
ParseFloat(text) ==
  IF text = <<>>
  THEN Raised(ValueError("could not convert string to float"))
  ELSE Returned(text[1])

\* The try block of validate_inputs on the form i: it returns True or raises
\* the error the message box shows.
ValidateInputs(i) ==
  LET symbol == Upper(Strip(i.symbol))
      quantity == ParseFloat(i.quantity)
      price == ParseFloat(i.price)
      stop_price == ParseFloat(i.stop_price)
      limit == ParseFloat(i.oco_limit_price)
      stop == ParseFloat(i.oco_stop_price)
      stop_limit == ParseFloat(i.oco_stop_limit_price)
  IN IF symbol = <<>> \/ ~EndsWith(symbol, USDT)
     THEN Raised(ValueError("Symbol must end with USDT"))
     ELSE IF i.side \notin {BUY, SELL}
     THEN Raised(ValueError("Side must be BUY or SELL"))
     ELSE IF quantity.kind = "Raised" THEN quantity
     ELSE IF FloatLe(quantity.value, 0)
     THEN Raised(ValueError("Quantity must be greater than 0"))
     ELSE CASE i.order_type = "LIMIT" ->
                 IF price.kind = "Raised" THEN price
                 ELSE IF FloatLe(price.value, 0)
                 THEN Raised(ValueError("Price must be greater than 0"))
                 ELSE Returned(TRUE)
            [] i.order_type = "STOP_MARKET" ->
                 IF stop_price.kind = "Raised" THEN stop_price
                 ELSE IF FloatLe(stop_price.value, 0)
                 THEN Raised(ValueError("Stop price must be greater than 0"))
                 ELSE Returned(TRUE)
            [] i.order_type = "OCO" ->
                 IF limit.kind = "Raised" THEN limit
                 ELSE IF stop.kind = "Raised" THEN stop
                 ELSE IF stop_limit.kind = "Raised" THEN stop_limit
                 ELSE IF \/ FloatLe(limit.value, 0)
                         \/ FloatLe(stop.value, 0)
                         \/ FloatLe(stop_limit.value, 0)
                 THEN Raised(ValueError("All OCO prices must be greater than 0"))
                 ELSE IF i.side = BUY
                 THEN IF FloatLe(limit.value, stop.value)
                      THEN Raised(ValueError("For BUY orders: Limit price should be higher than stop price"))
                      ELSE Returned(TRUE)
                 ELSE IF FloatLe(stop.value, limit.value)
                      THEN Raised(ValueError("For SELL orders: Limit price should be lower than stop price"))
                      ELSE Returned(TRUE)
            [] OTHER -> Returned(TRUE)

\* log_message trims the log when get("1.0", END).split('\n') has more
\* than LogLimit elements, by deleting the lines before line TrimTo
LogLimit == 1000
TrimTo == 100

\* The log after log_message(message), message being n lines long.  The
\* text of a log of l lines is l newline-terminated lines and the newline
\* the Text widget appends, so that split('\n') gives l + 2 elements.
LogAfter(l, n) ==
  IF (l + n) + 2 > LogLimit
  THEN IF l + n > TrimTo - 1 THEN (l + n) - (TrimTo - 1) ELSE 0
  ELSE l + n

\* the credentials the process may have been started with
GuiEnvironments ==
  {[BINANCE_API_KEY |-> NoneVal, BINANCE_API_SECRET |-> NoneVal],
   [BINANCE_API_KEY |-> "key", BINANCE_API_SECRET |-> "secret"]}

\* setup_bot: self.bot becomes a new instance when BasicBot(demo=...)
\* returns, and is left as it was when the constructor raises; either way
\* one line is logged.
setup_bot(d, logging, clientOut) ==
  LET r == BasicBotInit(NoneVal, NoneVal, d, environ, logging, clientOut)
  IN IF r.completion.kind = "Returned"
     THEN /\ bot' = bot + 1
          /\ demo' = d
          /\ client' = r.client
     ELSE UNCHANGED <<bot, demo, client>>

\* The window after BasicBotGUI(root), with the form holding one of forms:
\* setup_log_area has logged two lines, setup_bot one.
GuiStarted(forms) ==
  /\ environ \in GuiEnvironments
  /\ demo_mode_var = FALSE
  /\ \E logging \in LoggingOutcomes, clientOut \in ClientOutcomes :
       LET r == BasicBotInit(NoneVal, NoneVal, FALSE, environ, logging, clientOut)
       IN /\ bot = IF r.completion.kind = "Returned" THEN 1 ELSE 0
          /\ client = r.client
  /\ demo = FALSE
  /\ inputs \in forms
  /\ place_order_btn = "normal"
  /\ status_var = "Ready"
  /\ threads = <<>>
  /\ after = <<>>
  /\ validated = <<>>
  /\ offMain = {}
  /\ log_text = 3
  /\ op = "idle"
  /\ args = <<>>
  /\ calls = <<>>
  /\ outcome = NotCalled
  /\ caught = <<>>
  /\ ret = Returned(NoneVal)
  /\ prevTransportError = <<>>
  /\ prev = <<>>
  /\ botCalls = <<>>
  /\ printed = <<>>
  /\ NoLauncher

\* threading.Thread(target=..., daemon=True).start()
StartThread(target) ==
  threads' = threads (+) SetToBag({[target |-> target, pc |-> "started"]})

\* the thread in state t moves to state u
Moves(t, u) == threads' = (threads (-) SetToBag({t})) (+) SetToBag({u})

\* The user clicks Place Order (the button runs its command only while it is
\* enabled): validate_inputs, then the worker thread is started.
place_order ==
  /\ bot \in Nat
  /\ place_order_btn = "normal"
  /\ IF ValidateInputs(inputs).kind = "Raised"
     THEN /\ validated' = <<>>
          /\ UNCHANGED <<place_order_btn, status_var, threads>>
     ELSE IF bot = 0
          THEN /\ validated' = <<[inputs |-> inputs, bot |-> bot]>>
               /\ UNCHANGED <<place_order_btn, status_var, threads>>
          ELSE /\ validated' = <<[inputs |-> inputs, bot |-> bot]>>
               /\ place_order_btn' = "disabled"
               /\ status_var' = "Placing order..."
               /\ StartThread("_place_order_thread")
  /\ UNCHANGED <<demo, client, op, args, outcome, calls, caught, ret,
                 prevTransportError, prev, botCalls, printed, demo_mode_var,
                 bot, inputs, after, offMain, log_text, environ, launcherVars>>

\* the log after log_message was called with messages of ns[1], ns[2], ...
\* lines in turn
RECURSIVE LogAll(_, _)
LogAll(l, ns) ==
  IF ns = <<>> THEN l ELSE LogAll(LogAfter(l, Head(ns)), Tail(ns))

\* the user clicks and types while the log holds fewer than MaxLogged lines
Interactive == log_text < MaxLogged

botVars == <<op, args, outcome, calls, caught, ret>>
restVars == <<prevTransportError, prev, botCalls, printed, environ, launcherVars>>

\* The user ticks or unticks Demo Mode: the checkbox flips its variable and
\* runs on_demo_mode_toggle, which calls setup_bot and logs the new mode.
\* Toggles are followed for one toggle's two lines longer than clicks.
on_demo_mode_toggle ==
  /\ bot \in Nat
  /\ log_text < MaxLogged + 2
  /\ demo_mode_var' = ~demo_mode_var
  /\ \E logging \in LoggingOutcomes, clientOut \in ClientOutcomes :
       setup_bot(~demo_mode_var, logging, clientOut)
  /\ log_text' = LogAll(log_text, <<1, 1>>)
  /\ UNCHANGED <<botVars, restVars, inputs, place_order_btn, status_var,
                 threads, after, validated, offMain>>

\* the forms the user switches between while orders are under way: a market
\* order, the same with a quantity that is not a number, and an OCO order
GuiForm ==
  [order_type |-> "MARKET", symbol |-> <<"E","T","H","U","S","D","T">>, side |-> BUY,
   quantity |-> <<1>>, price |-> <<1>>, stop_price |-> <<1>>,
   oco_limit_price |-> <<2>>, oco_stop_price |-> <<1>>, oco_stop_limit_price |-> <<1>>]

GuiForms ==
  {GuiForm, [GuiForm EXCEPT !.quantity = <<>>], [GuiForm EXCEPT !.order_type = "OCO"]}

\* the user changes one entry of the form
edit ==
  /\ bot \in Nat
  /\ Interactive
  /\ inputs' \in {j \in GuiForms :
                    Cardinality({f \in DOMAIN inputs : inputs[f] # j[f]}) = 1}
  /\ UNCHANGED <<demo, client, botVars, restVars, demo_mode_var, bot,
                 place_order_btn, status_var, threads, after, validated,
                 offMain, log_text>>

\* The user clicks Place Order while the button is enabled
click_place_order == Interactive /\ place_order

\* a thread ends with root.after(0, handler, arg)
Schedule(t, callback) ==
  /\ after' = Append(after, callback)
  /\ threads' = threads (-) SetToBag({t})

\* What the thread keeps of the bot's answer: how the call ended, the
\* result's status and the length of its pretty-printed form,
\* json.dumps(result, indent=2).  That length depends on the payload the
\* exchange returned, which the result carries whole; results take MaxDump
\* lines here, and LogSpec below takes messages of every length.
Answer(block, ts) ==
  LET r == Operation(block, ts)
  IN IF r.kind = "Raised"
     THEN [kind |-> "Raised"]
     ELSE [kind |-> "Returned", status |-> Get(r.value, "status", NoneVal),
           lines |-> IF Get(r.value, "status", NoneVal) = "SUCCESS" THEN MaxDump ELSE 0]

\* _place_order_thread, lines 279-282: the worker reads the order type, the
\* symbol, the side and the quantity from the Tk variables
ReadOrder(t) ==
  /\ t.target = "_place_order_thread"
  /\ t.pc = "started"
  /\ offMain' = offMain \cup {"order_type_var", "symbol_var", "side_var", "quantity_var"}
  /\ LET quantity == ParseFloat(inputs.quantity)
     IN IF quantity.kind = "Raised"
        THEN Schedule(t, [handler |-> "_handle_order_error"])
        ELSE /\ Moves(t, [target |-> "_place_order_thread", pc |-> "read",
                           order |-> [order_type |-> inputs.order_type,
                                      symbol |-> Upper(Strip(inputs.symbol)),
                                      side |-> inputs.side,
                                      quantity |-> quantity.value]])
             /\ UNCHANGED after
  /\ UNCHANGED <<demo, client, botVars, restVars, demo_mode_var, bot, inputs,
                 place_order_btn, status_var, validated, log_text>>

\* _place_order_thread, line 284: the worker calls log_message
LogOrder(t) ==
  /\ t.target = "_place_order_thread"
  /\ t.pc = "read"
  /\ offMain' = offMain \cup {"log_text"}
  /\ log_text' = LogAfter(log_text, 1)
  /\ Moves(t, [t EXCEPT !.pc = "logged"])
  /\ UNCHANGED <<demo, client, botVars, restVars, demo_mode_var, bot, inputs,
                 place_order_btn, status_var, after, validated>>

\* the Tk variables _place_order_thread reads for the prices of an order
PricesRead(order_type) ==
  CASE order_type = "MARKET" -> {}
    [] order_type = "LIMIT" -> {"price_var"}
    [] order_type = "STOP_MARKET" -> {"stop_price_var"}
    [] OTHER -> {"oco_limit_price_var", "oco_stop_price_var", "oco_stop_limit_price_var"}

\* The call _place_order_thread makes for the order o it has read, with the
\* prices taken from the form i: the method and its arguments, or the
\* ValueError of float() on a price that is not a number.
OrderSent(o, i) ==
  LET price == ParseFloat(i.price)
      stop_price == ParseFloat(i.stop_price)
      limit == ParseFloat(i.oco_limit_price)
      stop == ParseFloat(i.oco_stop_price)
      stop_limit == ParseFloat(i.oco_stop_limit_price)
  IN CASE o.order_type = "MARKET" ->
            Returned([method |-> "place_market_order",
                      args |-> [symbol |-> o.symbol, side |-> o.side,
                                quantity |-> o.quantity]])
       [] o.order_type = "LIMIT" ->
            IF price.kind = "Raised" THEN price
            ELSE Returned([method |-> "place_limit_order",
                           args |-> [symbol |-> o.symbol, side |-> o.side,
                                     quantity |-> o.quantity, price |-> price.value]])
       [] o.order_type = "STOP_MARKET" ->
            IF stop_price.kind = "Raised" THEN stop_price
            ELSE Returned([method |-> "place_stop_market_order",
                           args |-> [symbol |-> o.symbol, side |-> o.side,
                                     quantity |-> o.quantity,
                                     stop_price |-> stop_price.value]])
       [] OTHER ->
            IF limit.kind = "Raised" THEN limit
            ELSE IF stop.kind = "Raised" THEN stop
            ELSE IF stop_limit.kind = "Raised" THEN stop_limit
            ELSE Returned([method |-> "place_oco_order",
                           args |-> [symbol |-> o.symbol, side |-> o.side,
                                     quantity |-> o.quantity,
                                     limit_price |-> limit.value,
                                     stop_price |-> stop.value,
                                     stop_limit_price |-> stop_limit.value]])

\* the answers the method of self.bot can give to the call sent
OrderAnswers(method, a) ==
  CASE method = "place_market_order" ->
         {Answer(PlaceMarketOrderTry(a.symbol, a.side, a.quantity, out, ts), ts) :
            out \in OutcomesFor(MarketOrderChecks(a.symbol, a.side, a.quantity),
                                "futures_create_order"),
            ts \in Timestamps}
    [] method = "place_limit_order" ->
         {Answer(PlaceLimitOrderTry(a.symbol, a.side, a.quantity, a.price, out, ts),
                 ts) :
            out \in OutcomesFor(LimitOrderChecks(a.symbol, a.side, a.quantity, a.price),
                                "futures_create_order"),
            ts \in Timestamps}
    [] method = "place_stop_market_order" ->
         {Answer(PlaceStopMarketOrderTry(a.symbol, a.side, a.quantity, a.stop_price,
                                         out, ts), ts) :
            out \in OutcomesFor(StopMarketOrderChecks(a.symbol, a.side, a.quantity,
                                                      a.stop_price),
                                "futures_create_order"),
            ts \in Timestamps}
    [] OTHER ->
         {Answer(PlaceOcoOrderTry(a.symbol, a.side, a.quantity, a.limit_price,
                                  a.stop_price, a.stop_limit_price, out, ts), ts) :
            out \in OutcomesFor(OcoOrderChecks(a.symbol, a.side, a.quantity, a.limit_price,
                                               a.stop_price, a.stop_limit_price),
                                "futures_create_oco_order"),
            ts \in Timestamps}

\* _place_order_thread, lines 286-304: the worker reads the prices the
\* order type needs and enters the method of self.bot; the answer the method
\* will give is kept by the thread until it returns
SendOrder(t) ==
  /\ t.target = "_place_order_thread"
  /\ t.pc = "logged"
  /\ offMain' = offMain \cup PricesRead(t.order.order_type)
  /\ LET sent == OrderSent(t.order, inputs)
     IN IF sent.kind = "Raised"
        THEN Schedule(t, [handler |-> "_handle_order_error"])
        ELSE /\ \E answer \in OrderAnswers(sent.value.method, sent.value.args) :
                  Moves(t, [target |-> "_place_order_thread", pc |-> "calling",
                            order_type |-> t.order.order_type,
                            sent |-> sent.value, bot |-> bot, answer |-> answer])
             /\ UNCHANGED after
  /\ UNCHANGED <<demo, client, botVars, restVars, demo_mode_var, bot, inputs,
                 place_order_btn, status_var, validated, log_text>>

\* _place_order_thread, lines 307-310: the method has returned or raised and
\* the worker schedules the handler of the result or of the error
ReturnOrder(t) ==
  /\ t.target = "_place_order_thread"
  /\ t.pc = "calling"
  /\ IF t.answer.kind = "Raised"
     THEN Schedule(t, [handler |-> "_handle_order_error"])
     ELSE Schedule(t, [handler |-> "_handle_order_result",
                       status |-> t.answer.status,
                       lines |-> t.answer.lines])
  /\ UNCHANGED <<demo, client, botVars, restVars, demo_mode_var, bot, inputs,
                 place_order_btn, status_var, validated, offMain, log_text>>

\* The user clicks Get Account Info: get_account_info logs a line and starts
\* the thread fetch_account_info.  The button is never disabled.
click_get_account_info ==
  /\ bot \in Nat
  /\ Interactive
  /\ IF bot = 0
     THEN UNCHANGED <<threads, log_text>>
     ELSE /\ log_text' = LogAfter(log_text, 1)
          /\ StartThread("fetch_account_info")
  /\ UNCHANGED <<demo, client, botVars, restVars, demo_mode_var, bot, inputs,
                 place_order_btn, status_var, after, validated, offMain>>

\* fetch_account_info, line 353: the worker calls self.bot.get_account_info()
FetchAccount(t) ==
  /\ t.target = "fetch_account_info"
  /\ t.pc = "started"
  /\ \E answer \in {Answer(GetAccountInfoTry(out, ts), ts) :
                        out \in OutcomesFor(<<>>, "futures_account"),
                        ts \in Timestamps} :
       Moves(t, [target |-> "fetch_account_info", pc |-> "calling", bot |-> bot,
                 answer |-> answer])
  /\ UNCHANGED <<demo, client, botVars, restVars, demo_mode_var, bot, inputs,
                 place_order_btn, status_var, after, validated, offMain, log_text>>

\* fetch_account_info, lines 354-356
ReturnAccount(t) ==
  /\ t.target = "fetch_account_info"
  /\ t.pc = "calling"
  /\ IF t.answer.kind = "Raised"
     THEN Schedule(t, [handler |-> "_handle_account_error"])
     ELSE Schedule(t, [handler |-> "_handle_account_info",
                       status |-> t.answer.status,
                       lines |-> t.answer.lines])
  /\ UNCHANGED <<demo, client, botVars, restVars, demo_mode_var, bot, inputs,
                 place_order_btn, status_var, validated, offMain, log_text>>

\* a step of some worker thread, t being the state it is in
Worker ==
  /\ bot \in Nat
  /\ \E t \in DOMAIN threads :
       \/ ReadOrder(t)
       \/ LogOrder(t)
       \/ SendOrder(t)
       \/ ReturnOrder(t)
       \/ FetchAccount(t)
       \/ ReturnAccount(t)

\* _handle_order_result
HandleOrderResult(c) ==
  /\ place_order_btn' = "normal"
  /\ IF c.status = "SUCCESS"
     THEN /\ status_var' = "Order placed successfully"
          /\ log_text' = LogAll(log_text, <<1, 1, 1, 1, 1 + c.lines>>)
     ELSE /\ status_var' = "Order failed"
          /\ log_text' = LogAll(log_text, <<1, 1>>)

\* _handle_order_error leaving the button as it is
HandleOrderErrorButtonKept ==
  /\ UNCHANGED place_order_btn
  /\ status_var' = "Order failed"
  /\ log_text' = LogAfter(log_text, 1)

\* _handle_order_error
HandleOrderError ==
  /\ place_order_btn' = "normal"
  /\ status_var' = "Order failed"
  /\ log_text' = LogAfter(log_text, 1)

\* _handle_account_info: the two balance lines are logged when the payload
\* has them, as the canned one has
HandleAccountInfo(c) ==
  /\ UNCHANGED <<place_order_btn, status_var>>
  /\ IF c.status = "SUCCESS"
     THEN \E balances \in {<<>>, <<1, 1>>} :
            log_text' = LogAll(log_text, <<1>> \o balances \o <<1 + c.lines>>)
     ELSE log_text' = LogAfter(log_text, 1)

\* _handle_account_error
HandleAccountError ==
  /\ UNCHANGED <<place_order_btn, status_var>>
  /\ log_text' = LogAfter(log_text, 1)

\* The main loop runs the oldest callback scheduled with root.after
MainLoop ==
  /\ bot \in Nat
  /\ after # <<>>
  /\ after' = Tail(after)
  /\ CASE Head(after).handler = "_handle_order_result" -> HandleOrderResult(Head(after))
       [] Head(after).handler = "_handle_order_error" -> HandleOrderError
       [] Head(after).handler = "_handle_account_info" -> HandleAccountInfo(Head(after))
       [] OTHER -> HandleAccountError
  /\ UNCHANGED <<demo, client, botVars, restVars, demo_mode_var, bot, inputs,
                 threads, validated, offMain>>

NextGui ==
  \/ on_demo_mode_toggle
  \/ edit
  \/ click_place_order
  \/ click_get_account_info
  \/ Worker
  \/ MainLoop

GuiSpec == GuiStarted({GuiForm}) /\ [][NextGui]_vars

\* The operating system lets worker threads run and the bot's call returns:
\* WF_vars(Worker), with ENABLED <<Worker>>_vars written out (a thread that is
\* alive always has a step to take).  Tk's main loop runs the callbacks
\* scheduled with root.after.
GuiLiveSpec ==
  /\ GuiSpec
  /\ []<>(DOMAIN threads = {}) \/ []<><<Worker>>_vars
  /\ WF_vars(MainLoop)

(* ------------------- the order form, filled in freely ----------------- *)

\* any form: the order type and the side are chosen from read-only lists
Forms ==
  [order_type : {"MARKET", "LIMIT", "STOP_MARKET", "OCO"},
   symbol : CliSymbols,
   side : {BUY, SELL},
   quantity : {<<>>, <<0>>, <<1>>},
   price : {<<0>>, <<1>>},
   stop_price : {<<0>>, <<1>>},
   oco_limit_price : Optional((0..MaxNum) \cup {NaN}),
   oco_stop_price : Optional((0..MaxNum) \cup {NaN}),
   oco_stop_limit_price : Optional((0..MaxNum) \cup {NaN})]

FormSpec == GuiStarted(Forms) /\ [][place_order]_vars

(* ------------------------- the log area alone ------------------------- *)

\* log_message(message) with a message of any length up to MaxMessage lines,
\* followed while the log is less than MaxMessage lines over its limit
log_message ==
  /\ bot \in Nat
  /\ log_text < LogLimit + MaxMessage
  /\ \E n \in 1..MaxMessage : log_text' = LogAfter(log_text, n)
  /\ UNCHANGED <<demo, client, botVars, restVars, demo_mode_var, bot, inputs,
                 place_order_btn, status_var, threads, after, validated, offMain>>

\* clear_logs: the log is emptied and one line is logged
clear_logs ==
  /\ bot \in Nat
  /\ log_text' = LogAfter(0, 1)
  /\ UNCHANGED <<demo, client, botVars, restVars, demo_mode_var, bot, inputs,
                 place_order_btn, status_var, threads, after, validated, offMain>>

\* from the window as it opens, its log holding the three lines of the start
LogSpec == GuiStarted({GuiForm}) /\ [][log_message \/ clear_logs]_vars

(* ---------------------------- the launcher --------------------------- *)

\* How input() ends: it returns the line typed (stripped by the caller), or
\* raises EOFError at the end of the input stream, or KeyboardInterrupt.
InputOutcomes ==
  {[kind |-> "Return", line |-> l] : l \in {"1", "2", "3", "4", "5", "6", ""}}
  \cup {[kind |-> "Raise", exc |-> "EOFError"],
        [kind |-> "Raise", exc |-> "KeyboardInterrupt"]}

\* How subprocess.run(..., check=True) ends: the script exits with status 0,
\* or with another status (CalledProcessError), or the interpreter is not
\* found, or the user interrupts.
RunOutcomes == {"Completed", "CalledProcessError", "FileNotFoundError", "KeyboardInterrupt"}

\* the script a menu choice launches, if any
ScriptOf(c) ==
  CASE c = "1" -> <<"gui_bot.py">>
    [] c = "3" -> <<"setup.py">>
    [] c = "4" -> <<"test_bot.py">>
    [] OTHER -> <<>>

\* Whether the loop goes on after choice c whose subprocess, if it has one,
\* ended as run: break is reached unless the exception is one that the inner
\* try does not catch and the outer "except Exception" does.
LoopsAfter(c, run) ==
  CASE c = "1" -> run = "CalledProcessError"
    [] c \in {"3", "4"} -> run = "CalledProcessError"
    [] c \in {"2", "5"} -> FALSE
    [] OTHER -> TRUE

\* the launcher before the first prompt
InitLauncher ==
  /\ looping = TRUE
  /\ choice = ""
  /\ stdin = "open"
  /\ launched = <<>>
  /\ served = FALSE
  /\ NoGui
  /\ demo = FALSE
  /\ client = "Unset"
  /\ op = "idle"
  /\ args = <<>>
  /\ calls = <<>>
  /\ outcome = NotCalled
  /\ caught = <<>>
  /\ ret = Returned(NoneVal)
  /\ prevTransportError = <<>>
  /\ prev = <<>>
  /\ botCalls = <<>>
  /\ printed = <<>>

\* One pass through the body of "while True": the prompt, the branch of the
\* choice with its subprocess, and the except clauses.
Iteration ==
  /\ looping
  /\ Len(launched) < MaxLaunches
  /\ \E in \in InputOutcomes, run \in RunOutcomes :
       /\ stdin = "ended" => in = [kind |-> "Raise", exc |-> "EOFError"]
       /\ IF in.kind = "Raise"
          THEN /\ looping' = (in.exc = "EOFError")
               /\ stdin' = IF in.exc = "EOFError" THEN "ended" ELSE stdin
               /\ served' = (served \/ in.exc = "EOFError")
               /\ UNCHANGED <<choice, launched>>
          ELSE /\ choice' = in.line
               /\ launched' = launched \o ScriptOf(in.line)
               /\ looping' = LoopsAfter(in.line, run)
               /\ served' = (served \/ in.line \in {"1", "2", "3", "4", "5"})
               /\ UNCHANGED stdin
  /\ UNCHANGED <<demo, client, botVars, prevTransportError, prev, botCalls,
                 printed, guiVars>>

LauncherSpec == InitLauncher /\ [][Iteration]_vars

(* --------------------- _validate_symbol on its own -------------------- *)

SymbolChars == {" ", "u", "S", "D", "t", "B"}

\* every string of at most MaxLen characters
SymbolStrings == UNION {[1..n -> SymbolChars] : n \in 0..MaxLen}

InitSymbol ==
  /\ demo = TRUE
  /\ client = "None"
  /\ op = "idle"
  /\ args \in {[symbol |-> s] : s \in SymbolStrings}
  /\ calls = <<>>
  /\ outcome = NotCalled
  /\ caught = <<>>
  /\ ret = Returned(NoneVal)
  /\ prevTransportError = <<>>
  /\ prev = <<>>
  /\ botCalls = <<>>
  /\ printed = <<>>
  /\ NoGui
  /\ NoLauncher

\* self._validate_symbol(symbol), called directly
validate_symbol ==
  /\ op = "idle"
  /\ op' = "_validate_symbol"
  /\ ret' = ValidateSymbol(args.symbol)
  /\ UNCHANGED <<demo, client, args, calls, outcome, caught, prevTransportError,
                 prev, botCalls, printed, otherVars>>

NextSymbol == validate_symbol

SymbolSpec == InitSymbol /\ [][NextSymbol]_vars

(* ---------------------- _validate_side on its own --------------------- *)

SideChars == {" ", "b", "U", "y", "S", "e", "L"}

\* every string of at most MaxLen characters
SideStrings == UNION {[1..n -> SideChars] : n \in 0..MaxLen}

InitSide ==
  /\ demo = TRUE
  /\ client = "None"
  /\ op = "idle"
  /\ args \in {[side |-> s] : s \in SideStrings}
  /\ calls = <<>>
  /\ outcome = NotCalled
  /\ caught = <<>>
  /\ ret = Returned(NoneVal)
  /\ prevTransportError = <<>>
  /\ prev = <<>>
  /\ botCalls = <<>>
  /\ printed = <<>>
  /\ NoGui
  /\ NoLauncher

\* self._validate_side(side), called directly
validate_side ==
  /\ op = "idle"
  /\ op' = "_validate_side"
  /\ ret' = ValidateSide(args.side)
  /\ UNCHANGED <<demo, client, args, calls, outcome, caught, prevTransportError,
                 prev, botCalls, printed, otherVars>>

NextSide == validate_side

SideSpec == InitSide /\ [][NextSide]_vars

(* ------------ _validate_quantity and _validate_price on their own ----- *)

InitNumber ==
  /\ demo = TRUE
  /\ client = "None"
  /\ op = "idle"
  /\ args \in [quantity : Floats, price : Floats]
  /\ calls = <<>>
  /\ outcome = NotCalled
  /\ caught = <<>>
  /\ ret = Returned(NoneVal)
  /\ prevTransportError = <<>>
  /\ prev = <<>>
  /\ botCalls = <<>>
  /\ printed = <<>>
  /\ NoGui
  /\ NoLauncher

\* self._validate_quantity(quantity), called directly
validate_quantity ==
  /\ op = "idle"
  /\ op' = "_validate_quantity"
  /\ ret' = ValidateQuantity(args.quantity)
  /\ UNCHANGED <<demo, client, args, calls, outcome, caught, prevTransportError,
                 prev, botCalls, printed, otherVars>>

\* self._validate_price(price), called directly
validate_price ==
  /\ op = "idle"
  /\ op' = "_validate_price"
  /\ ret' = ValidatePrice(args.price)
  /\ UNCHANGED <<demo, client, args, calls, outcome, caught, prevTransportError,
                 prev, botCalls, printed, otherVars>>

NextNumber ==
  \/ validate_quantity
  \/ validate_price

NumberSpec == InitNumber /\ [][NextNumber]_vars

(* ------------------------------- claims ------------------------------- *)

OrderOps == {"place_market_order", "place_limit_order",
             "place_stop_market_order", "place_oco_order"}

Called == op \in OrderOps \cup {"get_account_info", "get_order_status"}

\* the text of the exception a validator completion raised, if it raised
MsgIfRaised(c) == IF c.kind = "Raised" THEN {StrOf(c.exc)} ELSE {}

\* the messages of the validators that reject a field of the current call
FailedValidations ==
  (IF "symbol" \in DOMAIN args THEN MsgIfRaised(ValidateSymbol(args.symbol)) ELSE {})
  \cup (IF "side" \in DOMAIN args THEN MsgIfRaised(ValidateSide(args.side)) ELSE {})
  \cup (IF "quantity" \in DOMAIN args
        THEN MsgIfRaised(ValidateQuantity(args.quantity)) ELSE {})
  \cup UNION { MsgIfRaised(ValidatePrice(args[f])) :
               f \in {"price", "stop_price", "limit_price", "stop_limit_price"}
                     \cap DOMAIN args }

\* x > y on floats: false when either is NaN
FloatGt(x, y) == x # NaN /\ y # NaN /\ x > y

\* the trimmed, uppercased form of a string
Normalised(s) == Upper(Strip(s))

\* the text of a numeric entry is a number greater than 0
Positive(text) == text # <<>> /\ FloatGt(text[1], 0)

\* the three OCO prices are greater than 0 and on the right sides of each
\* other for the form's side
OcoAcceptable(i) ==
  /\ Positive(i.oco_limit_price)
  /\ Positive(i.oco_stop_price)
  /\ Positive(i.oco_stop_limit_price)
  /\ \/ i.side = BUY /\ FloatGt(i.oco_limit_price[1], i.oco_stop_price[1])
     \/ i.side = SELL /\ FloatGt(i.oco_stop_price[1], i.oco_limit_price[1])

\* validate_inputs finds nothing wrong with the symbol, side and quantity
CommonAccepted(i) ==
  ValidateInputs([i EXCEPT !.order_type = "MARKET"]).kind = "Returned"

\* C1: every call of an operation method returns a result; no exception
\* leaves it, whatever exception object its handlers receive.
C1_NoExceptionEscapes == Called => ret.kind = "Returned"

\* C2: a market, limit or stop-market order that completes without a
\* validation failure or backend exception returns 'status' = 'SUCCESS'.
C2_StatusIsSuccess ==
  (op \in {"place_market_order", "place_limit_order", "place_stop_market_order"}
   /\ caught = <<>>)
  => ret.value["status"] = "SUCCESS"

\* C3: when a field of an order operation or of get_order_status fails
\* validation, the result has status ERROR, its error is the message of a
\* validator that rejected a field, and the remote client is not invoked.
C3_ValidationFailure ==
  (Called /\ FailedValidations # {})
  => /\ ret.kind = "Returned"
     /\ ret.value["status"] = "ERROR"
     /\ ret.value["error"] \in FailedValidations
     /\ calls = <<>>

C3_Witness ==
  /\ op = "place_limit_order"
  /\ ~demo
  /\ args.price = 0
  /\ FailedValidations = {<<"Price must be greater than 0">>}
  /\ ret.kind = "Returned"
  /\ ret.value["error"] = <<"Price must be greater than 0">>
  /\ calls = <<>>

\* C4: in live mode, a provider error raised by the remote client during an
\* order operation gives a result of status ERROR whose error contains the
\* provider's message and which has no order fields.
C4_ProviderError ==
  (op \in OrderOps /\ outcome.kind = "Raise" /\ outcome.exc.type \in ProviderTypes)
  => /\ ~demo
     /\ ret.kind = "Returned"
     /\ ret.value["status"] = "ERROR"
     /\ \E i \in 1..Len(ret.value["error"]) : ret.value["error"][i] = outcome.exc.message
     /\ DOMAIN ret.value = {"status", "error", "timestamp"}

C4_Witness ==
  /\ op = "place_market_order"
  /\ outcome.kind = "Raise"
  /\ outcome.exc.type = "BinanceAPIException"
  /\ outcome.exc.message = "Invalid symbol."
  /\ ret.kind = "Returned"
  /\ ret.value["status"] = "ERROR"

\* C5 as stated: every transport failure carries the same, generic message.
C5_GenericMessage ==
  (TransportFailure /\ prevTransportError # <<>>)
  => ret.value["error"] = prevTransportError

\* C5 amended: the ERROR result of a transport failure carries the text of
\* the underlying exception.
C5_ExceptionText ==
  TransportFailure
  => /\ ret.value["status"] = "ERROR"
     /\ ret.value["error"] = <<caught[1].message>>

C5_Witness ==
  /\ TransportFailure
  /\ outcome.kind = "Raise"
  /\ ret.value["error"] = <<"Read timed out">>
  /\ prevTransportError = <<"Connection refused">>

\* C6: a call invokes the remote client at most once: exactly once in live
\* mode when validation passes, never otherwise, and not again after the
\* invocation failed.
C6_AtMostOneInvocation ==
  Called
  => /\ Len(calls) <= 1
     /\ (Len(calls) = 1 <=> (~demo /\ FailedValidations = {}))
     /\ (outcome.kind = "Raise" => Len(calls) = 1)

C6_Witness ==
  /\ Called
  /\ outcome.kind = "Raise"
  /\ Len(calls) = 1

\* C7: the request of a live market, limit or stop-market order carries the
\* normalised symbol and side, the quantity unchanged, and exactly the
\* parameters of its type.
C7_OrderRequest ==
  (op \in {"place_market_order", "place_limit_order", "place_stop_market_order"}
   /\ calls # <<>>)
  => /\ calls[1].method = "futures_create_order"
     /\ calls[1].params =
          CASE op = "place_market_order" ->
                 [symbol |-> Normalised(args.symbol), side |-> Normalised(args.side),
                  quantity |-> args.quantity, type |-> "MARKET"]
            [] op = "place_limit_order" ->
                 [symbol |-> Normalised(args.symbol), side |-> Normalised(args.side),
                  quantity |-> args.quantity, type |-> "LIMIT",
                  timeInForce |-> "GTC", price |-> args.price]
            [] op = "place_stop_market_order" ->
                 [symbol |-> Normalised(args.symbol), side |-> Normalised(args.side),
                  quantity |-> args.quantity, type |-> "STOP_MARKET",
                  stopPrice |-> args.stop_price]

C7_Witness ==
  /\ op = "place_limit_order"
  /\ calls # <<>>
  /\ args.symbol = <<" ","b","t","c","u","s","d","t"," ">>
  /\ args.side = <<"b","u","y">>
  /\ calls[1].params.symbol = <<"B","T","C","U","S","D","T">>
  /\ calls[1].params.side = BUY

\* C8: a successful place_oco_order returns SUCCESS, order_type OCO, the
\* three prices echoed and the list fields of the backend payload (456789 and
\* OCO in simulated mode); the live OCO request carries price = limit_price,
\* stopPrice = stop_price, stopLimitPrice = stop_limit_price and GTC.
C8_OcoOrder ==
  /\ (op = "place_oco_order" /\ caught = <<>>)
     => /\ ret.kind = "Returned"
        /\ ret.value["status"] = "SUCCESS"
        /\ ret.value["order_type"] = "OCO"
        /\ ret.value["limit_price"] = args.limit_price
        /\ ret.value["stop_price"] = args.stop_price
        /\ ret.value["stop_limit_price"] = args.stop_limit_price
        /\ LET payload == ret.value["raw_response"]
           IN /\ ret.value["order_list_id"] = payload.orderListId
              /\ ret.value["contingency_type"] = payload.contingencyType
              /\ ret.value["list_status_type"] = payload.listStatusType
              /\ ret.value["list_order_status"] = payload.listOrderStatus
              /\ ~demo => payload = outcome.payload
        /\ demo => /\ ret.value["order_list_id"] = 456789
                   /\ ret.value["contingency_type"] = "OCO"
  /\ (op = "place_oco_order" /\ calls # <<>>)
     => /\ calls[1].method = "futures_create_oco_order"
        /\ calls[1].params.price = args.limit_price
        /\ calls[1].params.stopPrice = args.stop_price
        /\ calls[1].params.stopLimitPrice = args.stop_limit_price
        /\ calls[1].params.stopLimitTimeInForce = "GTC"

C8_Witness ==
  /\ op = "place_oco_order"
  /\ ~demo
  /\ caught = <<>>
  /\ args.limit_price # args.stop_price
  /\ ret.value["order_list_id"] = 2001

\* C9: place_oco_order dispatches every order with a valid symbol, side and
\* quantity and three positive prices, whatever the ordering of the prices
\* relative to the side, and forwards the prices unchanged.
C9_NoOrderingCheck ==
  (/\ op = "place_oco_order"
   /\ ValidateSymbol(args.symbol).kind = "Returned"
   /\ Normalised(args.side) \in {BUY, SELL}
   /\ args.quantity > 0
   /\ args.limit_price > 0 /\ args.stop_price > 0 /\ args.stop_limit_price > 0)
  => /\ demo => /\ calls = <<>>
                /\ ret.kind = "Returned"
                /\ "raw_response" \in DOMAIN ret.value
                /\ ret.value["raw_response"] = OcoOrderCanned
                /\ ret.value["limit_price"] = args.limit_price
                /\ ret.value["stop_price"] = args.stop_price
                /\ ret.value["stop_limit_price"] = args.stop_limit_price
     /\ ~demo => /\ Len(calls) = 1
                 /\ calls[1].params.price = args.limit_price
                 /\ calls[1].params.stopPrice = args.stop_price
                 /\ calls[1].params.stopLimitPrice = args.stop_limit_price

C9_Witness ==
  /\ op = "place_oco_order"
  /\ ~demo
  /\ Normalised(args.side) = BUY
  /\ args.limit_price > 0
  /\ args.limit_price < args.stop_price
  /\ args.stop_limit_price > 0
  /\ Len(calls) = 1
  /\ calls[1].params.price = args.limit_price

\* C10: _validate_symbol(s) succeeds iff the trimmed, uppercased s is
\* non-empty and ends in "USDT", then returning that form; otherwise it fails
\* with a validation error.
C10_ValidateSymbol ==
  op = "_validate_symbol"
  => LET t == Normalised(args.symbol)
         n == Len(t)
         good == /\ n > 0
                 /\ n >= 4
                 /\ t[n - 3] = "U" /\ t[n - 2] = "S" /\ t[n - 1] = "D" /\ t[n] = "T"
     IN /\ ret.kind = "Returned" <=> good
        /\ ret.kind = "Returned" => ret.value = t
        /\ ret.kind = "Raised" => ret.exc.type = "ValueError"

C10_Witness ==
  /\ op = "_validate_symbol"
  /\ args.symbol = <<" ", "u", "S", "D", "t">>
  /\ ret = Returned(USDT)



\* C11: _validate_side(s) returns the trimmed, uppercased form of s when that
\* form is exactly BUY or SELL, and raises a ValueError for every other
\* string, the empty string included.
C11_ValidateSide ==
  op = "_validate_side" =>
    LET n == Normalised(args.side)
    IN IF n \in {BUY, SELL}
       THEN ret = Returned(n)
       ELSE /\ ret.kind = "Raised"
            /\ ret.exc.type = "ValueError"

\* a mixed-case side between spaces was accepted as BUY
C11_Witness ==
  /\ op = "_validate_side"
  /\ args.side = <<" ", "b", "U", "y", " ">>
  /\ ret = Returned(BUY)


\* C12: _validate_quantity(v) and _validate_price(v) return v unchanged when
\* v > 0 and raise a ValueError for every other numeric value.
C12_ValidatePositive ==
  /\ op = "_validate_quantity" =>
       IF FloatGt(args.quantity, 0)
       THEN ret = Returned(args.quantity)
       ELSE ret.kind = "Raised" /\ ret.exc.type = "ValueError"
  /\ op = "_validate_price" =>
       IF FloatGt(args.price, 0)
       THEN ret = Returned(args.price)
       ELSE ret.kind = "Raised" /\ ret.exc.type = "ValueError"


\* a credential is available when the parameter or the environment variable
\* holds a non-empty value
Available(param, variable) ==
  args[param] \notin {NoneVal, ""} \/ args[variable] \notin {NoneVal, ""}

\* C13: constructing in live mode with the API key or the API secret
\* available from neither the parameters nor the environment raises, and no
\* remote client is created; constructing in simulated mode never raises the
\* credentials error, creates no remote client and, when it returns, leaves
\* client None.
C13_Construction ==
  op = "BasicBot" =>
    /\ (~args.demo /\ ~(Available("api_key", "BINANCE_API_KEY")
                        /\ Available("api_secret", "BINANCE_API_SECRET"))) =>
         /\ ret.kind = "Raised"
         /\ client = "Unset"
         /\ calls = <<>>
    /\ args.demo =>
         /\ ret.kind = "Raised" => ret.exc.type # "ValueError"
         /\ calls = <<>>
         /\ client # "Client"
         /\ ret.kind = "Returned" => client = "None"

\* live mode, the key only in the environment and no secret anywhere: the
\* constructor raised the credentials error
C13_Witness ==
  /\ op = "BasicBot"
  /\ ~args.demo
  /\ args.api_key = NoneVal /\ args.BINANCE_API_KEY = "key"
  /\ args.api_secret = NoneVal /\ args.BINANCE_API_SECRET = ""
  /\ ret = Raised(ValueError(CredentialsRequired))


\* C14: no step of an instance's life after construction, an operation call
\* included, changes its mode flag demo or its client: both keep the values
\* the constructor gave them.
C14_ModeAndClientFixed == [][demo' = demo /\ client' = client]_vars

\* a live instance after a failed call that followed an earlier failed call
\* still holds its client
C14_Witness ==
  /\ Called
  /\ prevTransportError # <<>>
  /\ ret.kind = "Returned" /\ ret.value["status"] = "ERROR"
  /\ ~demo /\ client = "Client"


\* the field of a SUCCESS result that carries the backend's record
PayloadKey ==
  CASE op = "get_account_info" -> "account_info"
    [] op = "get_order_status" -> "order_status"
    [] OTHER                   -> "raw_response"

\* the payload each operation fabricates in simulated mode
SimulatedPayload ==
  CASE op = "place_market_order" ->
         [orderId |-> 123456, clientOrderId |-> "demo123",
          avgPrice |-> "50000.00", status |-> "FILLED"]
    [] op = "place_limit_order" ->
         [orderId |-> 234567, clientOrderId |-> "demoLimit", status |-> "NEW"]
    [] op = "place_stop_market_order" ->
         [orderId |-> 345678, clientOrderId |-> "demoStop", status |-> "NEW"]
    [] op = "place_oco_order" ->
         [orderListId |-> 456789, contingencyType |-> "OCO",
          listStatusType |-> "RESPONSE", listOrderStatus |-> "EXEC_STARTED",
          listClientOrderId |-> "demoOCO"]
    [] op = "get_account_info" ->
         [totalWalletBalance |-> "10000.00", totalUnrealizedProfit |-> "0.00",
          assets |-> << [asset |-> "USDT", walletBalance |-> "10000.00",
                         unrealizedProfit |-> "0.00"] >>]
    [] op = "get_order_status" ->
         [orderId |-> args.order_id, symbol |-> Normalised(args.symbol),
          status |-> "FILLED", price |-> "50000.00", avgPrice |-> "50000.00",
          executedQty |-> "0.001"]

\* C15: in simulated mode no call of an operation invokes the remote client,
\* whatever the inputs and the calls before it; a call whose inputs are all
\* valid returns a result carrying the operation's fixed canned payload
\* (orderId 123456 and status FILLED for market orders, 234567 and 345678
\* with status NEW for limit and stop-market orders), and the result of an
\* order reports the canned order id (order list id for an OCO order).
C15_SimulatedMode ==
  (demo /\ Called) =>
    /\ calls = <<>>
    /\ outcome = NotCalled
    /\ FailedValidations = {} =>
         /\ ret.kind = "Returned"
         /\ PayloadKey \in DOMAIN ret.value
         /\ ret.value[PayloadKey] = SimulatedPayload
         /\ op \in OrderOps \ {"place_oco_order"} =>
              /\ "order_id" \in DOMAIN ret.value
              /\ ret.value["order_id"] = SimulatedPayload.orderId
         /\ op = "place_oco_order" =>
              /\ "order_list_id" \in DOMAIN ret.value
              /\ ret.value["order_list_id"] = SimulatedPayload.orderListId

\* a simulated stop-market order with valid inputs gave the canned order
C15_Witness ==
  /\ demo
  /\ op = "place_stop_market_order"
  /\ FailedValidations = {}
  /\ ret.kind = "Returned"
  /\ ret.value["order_id"] = 345678
  /\ ret.value["raw_response"].status = "NEW"


\* the call ended in its try block with a result (no exception was caught)
Succeeded == Called /\ caught = <<>> /\ ret.kind = "Returned"

OrderFields == {"status", "order_type", "symbol", "side", "quantity",
                "timestamp", "raw_response"}

\* the top-level fields of the result each operation gives in simulated mode
SimulatedFields ==
  CASE op = "place_market_order" ->
         OrderFields \cup {"order_id", "client_order_id", "price"}
    [] op = "place_limit_order" ->
         OrderFields \cup {"order_id", "client_order_id", "price"}
    [] op = "place_stop_market_order" ->
         OrderFields \cup {"order_id", "client_order_id", "stop_price"}
    [] op = "place_oco_order" ->
         OrderFields \cup {"limit_price", "stop_price", "stop_limit_price",
                           "order_list_id", "contingency_type",
                           "list_status_type", "list_order_status"}
    [] op = "get_account_info" -> {"status", "account_info", "timestamp"}
    [] op = "get_order_status" -> {"status", "order_status", "timestamp"}

\* C16: for each operation, the result of a successful call has the same
\* top-level fields in simulated mode and in live mode, whatever payload the
\* remote client returned: in both modes they are the fields of the
\* operation's simulated result.
C16_SameFields == Succeeded => DOMAIN ret.value = SimulatedFields

\* a live market order whose payload had neither avgPrice nor status still
\* gave a result with every field of the simulated one
C16_Witness ==
  /\ ~demo
  /\ op = "place_market_order"
  /\ Succeeded
  /\ outcome.kind = "Return"
  /\ DOMAIN outcome.payload = {"orderId", "clientOrderId"}
  /\ "price" \in DOMAIN ret.value


\* the current call has the operation, the inputs and the backend outcome of
\* the call before it
SameCallAsBefore ==
  /\ Called
  /\ prev # <<>>
  /\ prev[1].op = op
  /\ prev[1].args = args
  /\ prev[1].outcome.kind = outcome.kind
  /\ prev[1].outcome = outcome

\* two completions alike in everything but the timestamp of their results
SameExceptTimestamp(a, b) ==
  /\ a.kind = b.kind
  /\ IF a.kind = "Returned"
     THEN /\ DOMAIN a.value = DOMAIN b.value
          /\ \A k \in DOMAIN a.value \ {"timestamp"} : a.value[k] = b.value[k]
     ELSE a.exc = b.exc

\* C17: a call with the operation, the inputs and the backend outcome of the
\* call before it ends as that call did, with a result equal in every field
\* except timestamp, whatever calls were made earlier on the instance; and a
\* live call whose remote invocation returned a payload carries exactly that
\* payload in its result.
C17_Repeatable ==
  /\ SameCallAsBefore => SameExceptTimestamp(prev[1].ret, ret)
  /\ (Succeeded /\ outcome.kind = "Return") =>
       /\ PayloadKey \in DOMAIN ret.value
       /\ ret.value[PayloadKey] = outcome.payload

\* after an earlier failed call, a live stop-market order was placed twice
\* with the same inputs and the same payload, at two different times
C17_Witness ==
  /\ SameCallAsBefore
  /\ Succeeded
  /\ op = "place_stop_market_order"
  /\ outcome.kind = "Return"
  /\ prevTransportError # <<>>
  /\ ret.value["timestamp"] # prev[1].ret.value["timestamp"]
  /\ ret.value["raw_response"] = prev[1].ret.value["raw_response"]


\* C18: a result returned by an operation after an exception was caught,
\* whatever raised it, has exactly the fields status, error and timestamp,
\* with status ERROR and error the text of the exception; and every result
\* whose status is ERROR has exactly these three fields.
C18_ErrorShape ==
  (Called /\ ret.kind = "Returned") =>
    /\ caught # <<>> =>
         /\ DOMAIN ret.value = {"status", "error", "timestamp"}
         /\ ret.value["status"] = "ERROR"
         /\ ret.value["error"] = StrOf(caught[1])
    /\ ret.value["status"] = "ERROR" =>
         DOMAIN ret.value = {"status", "error", "timestamp"}

\* an OCO order refused by the provider gave a three-field ERROR result
C18_Witness ==
  /\ op = "place_oco_order"
  /\ calls # <<>>
  /\ caught # <<>>
  /\ caught[1].type \in ProviderTypes
  /\ ret.kind = "Returned"
  /\ ret.value["status"] = "ERROR"
  /\ Cardinality(DOMAIN ret.value) = 3


\* C19: get_order_status fails before the remote call exactly when its
\* symbol is rejected (the order id is not validated); when it succeeds it
\* returns status SUCCESS with the backend's record under order_status: the
\* payload the remote client returned, unmodified, in live mode, and in
\* simulated mode a record whose orderId and symbol are the requested order
\* id and the normalised symbol.  get_account_info takes no input and fails
\* only when the remote call does; in live mode it returns the payload
\* unmodified under account_info, and in simulated mode it always returns
\* status SUCCESS with an asset list of exactly one entry, for USDT.
C19_Queries ==
  /\ op = "get_order_status" =>
       /\ (caught # <<>> /\ calls = <<>>)
             <=> (ValidateSymbol(args.symbol).kind = "Raised")
       /\ Succeeded =>
            /\ DOMAIN ret.value = {"status", "order_status", "timestamp"}
            /\ ret.value["status"] = "SUCCESS"
            /\ outcome.kind = "Return" =>
                 ret.value["order_status"] = outcome.payload
            /\ demo =>
                 /\ ret.value["order_status"].orderId = args.order_id
                 /\ ret.value["order_status"].symbol = Normalised(args.symbol)
  /\ op = "get_account_info" =>
       /\ args = <<>>
       /\ caught # <<>> => calls # <<>>
       /\ Succeeded =>
            /\ DOMAIN ret.value = {"status", "account_info", "timestamp"}
            /\ ret.value["status"] = "SUCCESS"
            /\ outcome.kind = "Return" =>
                 ret.value["account_info"] = outcome.payload
       /\ demo =>
            /\ Succeeded
            /\ Len(ret.value["account_info"].assets) = 1
            /\ ret.value["account_info"].assets[1].asset = "USDT"

\* a simulated status query for order id 0 and a lower-case symbol between
\* spaces succeeded and echoed the id and the normalised symbol
C19_Witness ==
  /\ demo
  /\ op = "get_order_status"
  /\ args.order_id = 0
  /\ args.symbol = <<" ","b","t","c","u","s","d","t"," ">>
  /\ Succeeded
  /\ ret.value["order_status"].orderId = 0
  /\ ret.value["order_status"].symbol = <<"B","T","C","U","S","D","T">>


\* main() got past the construction of its bot
Constructed == op = "main" /\ client # "Unset"

\* a numeric flag was given with a value other than 0
NonZero(o) == o # <<>> /\ o[1] # 0

\* the flags ask for the account, or name an order completely: a non-empty
\* symbol, a side, an order type, a non-zero quantity and a non-zero value
\* for each price the order type needs
CliComplete ==
  \/ args.account_info
  \/ /\ args.symbol # <<>> /\ args.symbol[1] # <<>>
     /\ args.side # <<>>
     /\ args.order_type # <<>>
     /\ NonZero(args.quantity)
     /\ args.order_type[1] = "LIMIT" => NonZero(args.price)
     /\ args.order_type[1] = "STOP_MARKET" => NonZero(args.stop_price)
     /\ args.order_type[1] = "OCO" =>
          /\ NonZero(args.limit_price)
          /\ NonZero(args.stop_price)
          /\ NonZero(args.stop_limit_price)

\* C20: every run of main() whose bot construction succeeds calls exactly
\* one operation of the bot and prints the result of that call, whatever
\* the flags.
C20_ExactlyOneCall ==
  Constructed =>
    /\ Len(botCalls) = 1
    /\ ret.kind = "Returned"
    /\ printed = <<PrintResult(ret.value)>>

\* C20 (amended): every run of main() whose bot construction succeeds calls
\* at most one operation of the bot and prints exactly one thing.  It calls
\* one exactly when the flags ask for the account or name an order
\* completely, with --account-info taking precedence over the order flags;
\* it then prints the result the call returned, or "Error: " and the text of
\* the exception the call raised.  Otherwise it calls none, invokes no
\* remote method and prints an error message.
C20_AtMostOneCall ==
  Constructed =>
    /\ Len(botCalls) <= 1
    /\ Len(printed) = 1
    /\ (Len(botCalls) = 1) <=> CliComplete
    /\ args.account_info => botCalls = <<"get_account_info">>
    /\ botCalls = <<>> =>
         /\ printed[1].kind = "error"
         /\ calls = <<>>
    /\ botCalls # <<>> =>
         IF ret.kind = "Returned"
         THEN printed[1] = PrintResult(ret.value)
         ELSE printed[1] = PrintError(<<"Error: ">> \o StrOf(ret.exc))

\* a simulated LIMIT order given with --price 0: no operation was called and
\* the missing-price message was printed
C20_Witness ==
  /\ Constructed
  /\ demo
  /\ ~args.account_info
  /\ args.symbol = << <<"E","T","H","U","S","D","T">> >>
  /\ args.side = <<BUY>>
  /\ args.order_type = <<"LIMIT">>
  /\ args.quantity = <<1>>
  /\ args.price = <<0>>
  /\ botCalls = <<>>
  /\ printed = <<PrintError(<<"Error: price is required for LIMIT orders">>)>>


\* the fields of an order operation in the order symbol, side, quantity,
\* then its price fields
FieldOrder ==
  CASE op = "place_market_order" -> <<"symbol", "side", "quantity">>
    [] op = "place_limit_order" -> <<"symbol", "side", "quantity", "price">>
    [] op = "place_stop_market_order" ->
         <<"symbol", "side", "quantity", "stop_price">>
    [] op = "place_oco_order" ->
         <<"symbol", "side", "quantity", "limit_price", "stop_price",
           "stop_limit_price">>

\* the validator's completion on field f of the current call
FieldCheck(f) ==
  CASE f = "symbol"   -> ValidateSymbol(args.symbol)
    [] f = "side"     -> ValidateSide(args.side)
    [] f = "quantity" -> ValidateQuantity(args.quantity)
    [] OTHER          -> ValidatePrice(args[f])

\* the positions in FieldOrder of the invalid fields of the current call
InvalidFields ==
  {i \in 1..Len(FieldOrder) : FieldCheck(FieldOrder[i]).kind = "Raised"}

FirstInvalidField == CHOOSE i \in InvalidFields : \A j \in InvalidFields : i <= j

\* C21: when one or more fields of an order operation are invalid, the call
\* returns the ERROR result of the first invalid field in the order symbol,
\* side, quantity, price fields (for OCO: limit_price, stop_price,
\* stop_limit_price): the exception caught is that field's, the error is its
\* message, and the remote client is not invoked.
C21_FailFast ==
  (op \in OrderOps /\ InvalidFields # {}) =>
    /\ caught = <<FieldCheck(FieldOrder[FirstInvalidField]).exc>>
    /\ calls = <<>>
    /\ ret.kind = "Returned"
    /\ ret.value["status"] = "ERROR"
    /\ ret.value["error"] = StrOf(FieldCheck(FieldOrder[FirstInvalidField]).exc)

\* an OCO order with a bad symbol, a bad side and a bad quantity reported the
\* symbol
C21_Witness ==
  /\ op = "place_oco_order"
  /\ Cardinality(InvalidFields) >= 3
  /\ FirstInvalidField = 1
  /\ args.symbol = <<"B","T","C","U","S","D">>
  /\ ret.kind = "Returned"
  /\ ret.value["error"] = <<"Symbol must end with USDT for USDT-M Futures">>

\* C22: a click on Place Order with an OCO form whose symbol, side and
\* quantity are in order is accepted by validate_inputs exactly when the
\* three prices are greater than 0 and the limit price is above the stop
\* price for BUY, below it for SELL; when it is rejected the button stays
\* enabled, no worker thread is started and the bot is not called.
C22_OcoAcceptedIffOrdered ==
  [][(inputs.order_type = "OCO" /\ CommonAccepted(inputs))
       => /\ (validated' # <<>>) <=> OcoAcceptable(inputs)
          /\ validated' = <<>>
               => UNCHANGED <<place_order_btn, threads, botCalls, calls, after>>]_vars

\* C23: whenever the window has a bot, the bot's demo flag equals the value
\* of the Demo Mode checkbox, also after a toggle whose construction failed.
C23_BotMatchesCheckbox == bot # 0 => demo = demo_mode_var

\* the order workers alive and the order callbacks not yet run
OrdersUnderWay ==
  BagCardinality([t \in {u \in DOMAIN threads : u.target = "_place_order_thread"}
                    |-> threads[t]])
  + Cardinality({k \in DOMAIN after :
                  after[k].handler \in {"_handle_order_result", "_handle_order_error"}})

\* C24: once place_order has disabled the button and started the worker, the
\* button is enabled again in the end, whether the order succeeds, fails or
\* the worker meets an exception; and while the button is disabled no second
\* order worker is started.
C24_ButtonReenabled ==
  /\ (place_order_btn = "disabled") ~> (place_order_btn = "normal")
  /\ [](place_order_btn = "disabled" => OrdersUnderWay = 1)
  /\ [](place_order_btn = "normal" => OrdersUnderWay = 0)

C24_Witness ==
  /\ place_order_btn = "normal"
  /\ status_var = "Order placed successfully"
  /\ validated # <<>>

\* the calls of an operation method of bot number b that are under way
CallsUnderWay(b) ==
  BagCardinality([t \in {u \in DOMAIN threads : u.pc = "calling" /\ u.bot = b}
                    |-> threads[t]])

\* C25: the calls into one BasicBot instance are serialized: no two
\* operation calls on the same instance are under way at the same time.
C25_CallsSerialized == \A b \in 1..bot : CallsUnderWay(b) <= 1

\* the order an accepted form stands for, as the worker should send it
OrderOf(i) ==
  LET common == [symbol |-> Upper(Strip(i.symbol)), side |-> i.side,
                 quantity |-> i.quantity[1]]
  IN CASE i.order_type = "MARKET" ->
            [method |-> "place_market_order", args |-> common]
       [] i.order_type = "LIMIT" ->
            [method |-> "place_limit_order",
             args |-> [symbol |-> common.symbol, side |-> common.side,
                       quantity |-> common.quantity, price |-> i.price[1]]]
       [] i.order_type = "STOP_MARKET" ->
            [method |-> "place_stop_market_order",
             args |-> [symbol |-> common.symbol, side |-> common.side,
                       quantity |-> common.quantity, stop_price |-> i.stop_price[1]]]
       [] OTHER ->
            [method |-> "place_oco_order",
             args |-> [symbol |-> common.symbol, side |-> common.side,
                       quantity |-> common.quantity,
                       limit_price |-> i.oco_limit_price[1],
                       stop_price |-> i.oco_stop_price[1],
                       stop_limit_price |-> i.oco_stop_limit_price[1]]]

\* C26: the order the worker sends is the one validate_inputs accepted: the
\* same type, symbol, side, quantity and prices, sent to the same bot.
C26_SentIsValidated ==
  \A t \in DOMAIN threads :
    (t.target = "_place_order_thread" /\ t.pc = "calling")
      => /\ validated # <<>>
         /\ t.sent = OrderOf(validated[1].inputs)
         /\ t.bot = validated[1].bot

\* C27: the widgets are read and updated on the main thread only; the
\* worker threads call the bot and schedule callbacks with root.after.
C27_WidgetsOnMainThread == offMain = {}

\* C28: after every log_message the log holds at most 1000 lines, whatever
\* the messages were, multi-line ones included.
C28_LogBounded == log_text <= LogLimit

\* C29: once a choice in 1-5 has been entered or the input has ended the
\* menu loop is over, after at most one subprocess launch, also when the
\* subprocess exits with a failure status; only an invalid choice prompts
\* again.
C29_LoopEnds == served => (~looping /\ Len(launched) <= 1)

====
